---- MODULE Spec2Model ----
(***************************************************************************)
(* Texas Hold'em (Laguiguepita/Poker): one hand driven by startNewGame,    *)
(* its betting rounds, the deck and the hand evaluator.                    *)
(*                                                                         *)
(* JavaScript facts the model keeps:                                       *)
(*  - the sources are ES modules, hence strict mode: an assignment to a    *)
(*    property of a frozen object throws a TypeError (placeBet);           *)
(*  - a property that no code ever creates reads as undefined, which is    *)
(*    falsy (player.folded, player.allIn, player.isIA);                    *)
(*  - an exception leaves startNewGame at once: the hand is aborted.       *)
(***************************************************************************)
EXTENDS Integers, Sequences, FiniteSets, TLC

VARIABLES
    players,        \* game.players: seat index -> player object
    deck,           \* game.deck.cards (<<>> while game.deck is null)
    tableCard,      \* game.tableCard
    pot,            \* game.pot
    currentPhase,   \* game.currentPhase
    currentBet,     \* game.currentBet
    bigBlindPos,    \* game.bigBlindPos
    smallBlindPos,  \* game.smallBlindPos
    pc,             \* where startNewGame stands
    stage,          \* how many betting rounds of the hand have completed
    error,          \* the exception that aborted the hand, or "none"
    activePlayers,  \* bettingRound: ids of the snapshot taken at its entry
    playersToAct,   \* bettingRound: the Set of ids that still owe an action
    currentIdx,     \* bettingRound: the seat asked next
    lastAction,     \* history: the action the last loop iteration processed
    paidIn,         \* history: chips that left the stacks in this hand
    awarded,        \* history: chips added to a stack by an award
    phasesRun,      \* history: currentPhase at each entry of the betting loop
    evaluated,      \* history: showdown has called the evaluator
    burned,         \* history: the cards dealt from the deck and given to nobody
    evalCards,      \* evaluator: the cards handed to bestRank
    evalBest,       \* evaluator: what bestRank returned
    evalHands,      \* evaluator: the entries handed to compareHands
    evalWinner,     \* evaluator: the entry compareHands returned
    evalArgs,       \* the arguments of the function that is called on its own
    evalResult      \* what that function returned

gameVars  == <<players, deck, tableCard, pot, currentPhase, currentBet,
               bigBlindPos, smallBlindPos>>
ctrlVars  == <<pc, stage, error>>
roundVars == <<activePlayers, playersToAct, currentIdx>>
histVars  == <<lastAction, paidIn, awarded, phasesRun, evaluated, burned>>
evalVars  == <<evalCards, evalBest, evalHands, evalWinner, evalArgs, evalResult>>
vars      == <<gameVars, ctrlVars, roundVars, histVars, evalVars>>

----------------------------------------------------------------------------
(* Program constants *)

smallBlind == 10
bigBlind   == 20
NumSuits   == 4
NumRanks   == 13

(* Bounds of the model *)

\* seats at the table (setupGame creates 2 to 9)
TableSizes == {2, 3}
\* setupGame seats the human and 1 to 8 AI players: a table of 2 to MaxPlayers
MaxPlayers == 9
SetupSizes == 2..MaxPlayers
\* the chip counts a player may start the hand with: createNewGame hands
\* the second element of each player pair to createPlayer as its chips
StartingChips == {10, 20, 60}
\* a raise target typed by a player is k * bigBlind, k in 0..MaxRaiseMult
MaxRaiseMult == 2
\* outcomes of Math.random tried by shuffleDeck
NumShuffles == 1
\* the candidates of bestRank are drawn from EvalDeckSize cards
EvalDeckSize == 12
\* compareHands is handed 2 to MaxEntries entries
MaxEntries == 3
\* main has played 1 to MaxHands hands
MaxHands == 3
\* the amounts read for a raise are -MaxParsed to MaxParsed small blinds
MaxParsed == 6
\* dealCards is asked for 0 to MaxDealCount cards
MaxDealCount == 4
\* shuffleDeck runs on the fresh deck under random sources 0..ShuffleSeeds
ShuffleSeeds == 8
\* and under every random outcome on a deck of ShuffleDeckSize cards
ShuffleDeckSize == 4

RaiseTargets == {k * bigBlind : k \in 0..MaxRaiseMult}

----------------------------------------------------------------------------
(* Cards.js, Decks.js *)

\* a card is its index in createDeck's order: suit-major, rank-minor
Cards == 0..(NumSuits * NumRanks - 1)
cardValue(c) == (c % NumRanks) + 2
cardSuit(c)  == c \div NumRanks

createDeck == [i \in 1..(NumSuits * NumRanks) |-> i - 1]

\* Math.floor(Math.random() * (i + 1)) under random source s: a value of 0..i
randomIndex(s, i) == ((s + 1) * i) % (i + 1)

\* the values Math.random yields to the loop of shuffleDeck over n cards,
\* by the index i they are drawn for
randomOutcomes(s, n) == [i \in 1..(n - 1) |-> randomIndex(s, i)]

\* an assignment that leaves the second position as it was
swapOverwrite(cards, a, b) == [cards EXCEPT ![a] = cards[b]]

swap(cards, a, b) == [cards EXCEPT ![a] = cards[b], ![b] = cards[a]]

\* the loop of shuffleDeck from 0-based index i down to 1, j = r[i]
RECURSIVE shuffleFrom(_, _, _)
shuffleFrom(cards, i, r) ==
    IF i < 1 THEN cards
    ELSE shuffleFrom(swap(cards, i + 1, r[i] + 1), i - 1, r)

\* shuffleDeck on a copy of the cards, Math.random yielding r
shuffleCards(cards, r) == shuffleFrom(cards, Len(cards) - 1, r)

shuffleDeck(cards, s) == shuffleCards(cards, randomOutcomes(s, Len(cards)))

dealCardsThrows(cards, count) == count > Len(cards)
dealtCards(cards, count)      == SubSeq(cards, 1, count)
\* a slice that starts one card late
remainingDeckLate(cards, count) == SubSeq(cards, count + 2, Len(cards))
remainingDeck(cards, count)   == SubSeq(cards, count + 1, Len(cards))

\* what a hand or the table holds: a card, or (boxed) a one-element array
\* holding the card, whose .value and .suit read as undefined
Item(c, isBoxed) == [card |-> c, boxed |-> isBoxed]

----------------------------------------------------------------------------
(* Players.js *)

createPlayer(i, startChips) ==
    [id |-> i, chips |-> startChips, hand |-> <<>>, currentBet |-> 0,
     hasFolded |-> FALSE, isInAllIn |-> FALSE, frozen |-> TRUE]

\* a hand that keeps only the card it is given last
giveCardLast(item, player) ==
    [player EXCEPT !.hand = <<item>>, !.frozen = TRUE]

\* giveCard appends its first argument as it is
giveCard(item, player) ==
    [player EXCEPT !.hand = Append(@, item), !.frozen = TRUE]

\* "none" when placeBet returns, else the exception it throws
\* placeBet without its test of the amount against the chips
placeBetThrowsAnyAmount(player, amount) ==
    IF player.hasFolded THEN "Error"
    ELSE IF player.chips = amount /\ player.frozen THEN "TypeError"
    ELSE "none"

placeBetThrows(player, amount) ==
    IF player.hasFolded THEN "Error"
    ELSE IF amount > player.chips THEN "Error"
    ELSE IF player.chips = amount /\ player.frozen THEN "TypeError"
    ELSE "none"

placeBet(player, amount) ==
    [player EXCEPT !.chips = @ - amount,
                   !.isInAllIn = @ \/ (player.chips = amount),
                   !.currentBet = @ + amount,
                   !.frozen = TRUE]

foldThrows(player) == IF player.hasFolded THEN "Error" ELSE "none"
\* a fold that also gives up the bet of the phase
foldLoseBet(player) ==
    [player EXCEPT !.hasFolded = TRUE, !.currentBet = 0, !.frozen = TRUE]
fold(player) == [player EXCEPT !.hasFolded = TRUE, !.frozen = TRUE]

call(player, currentCall) == placeBet(player, currentCall - player.currentBet)
callThrows(player, currentCall) ==
    placeBetThrows(player, currentCall - player.currentBet)

raise(player, target) == placeBet(player, target - player.currentBet)
raiseThrows(player, target) ==
    placeBetThrows(player, target - player.currentBet)

\* a reset that leaves the two flags as the last hand set them
resetKeepFlags(player) ==
    [player EXCEPT !.currentBet = 0, !.hand = <<>>, !.frozen = TRUE]

resetForNewHand(player) ==
    [player EXCEPT !.currentBet = 0, !.hasFolded = FALSE,
                   !.isInAllIn = FALSE, !.hand = <<>>, !.frozen = TRUE]

\* the seats of the players that have not folded, in seat order
getActivePlayers(ps) == {i \in DOMAIN ps : ~ps[i].hasFolded}

Min(S) == CHOOSE x \in S : \A y \in S : x <= y
Max(S) == CHOOSE x \in S : \A y \in S : x >= y

----------------------------------------------------------------------------
(* PlayerService: the actions getHumanAction can resolve to *)

Action(t, a) == [type |-> t, amount |-> a]

\* what parseInt reads as the choice: the entries of the menu, and 0 and 4
\* for the answers that are none of them
MenuChoices == 0..4

\* an answer that is none of the entries becomes a check in both menus
resolveChoiceCheck(gameBet, player, choice, amount) ==
    LET amountToCall == gameBet - player.currentBet IN
    IF amountToCall > 0
    THEN CASE choice = 1 -> Action("call", amountToCall)
           [] choice = 2 -> Action("raise", amount)
           [] choice = 3 -> Action("fold", 0)
           [] OTHER      -> Action("check", 0)
    ELSE CASE choice = 1 -> Action("check", 0)
           [] choice = 2 -> Action("raise", amount)
           [] OTHER      -> Action("check", 0)

\* the action getHumanAction resolves for the answers choice and amount
resolveChoice(gameBet, player, choice, amount) ==
    LET amountToCall == gameBet - player.currentBet IN
    IF amountToCall > 0
    THEN CASE choice = 1 -> Action("call", amountToCall)
           [] choice = 2 -> Action("raise", amount)
           [] choice = 3 -> Action("fold", 0)
           [] OTHER      -> Action("fold", 0)
    ELSE CASE choice = 1 -> Action("check", 0)
           [] choice = 2 -> Action("raise", amount)
           [] OTHER      -> Action("check", 0)

\* the answers typed at the menu: any entry at a table of TableSizes, entry 1
\* (call or check) at the larger tables
MenuAnswers ==
    IF Cardinality(DOMAIN players) \in TableSizes THEN MenuChoices ELSE {1}

\* the actions getHumanAction can resolve to
getHumanAction(gameBet, player) ==
    {resolveChoice(gameBet, player, choice, amount) :
        choice \in MenuAnswers, amount \in RaiseTargets}

\* the values of Math.random, in hundredths
RandomValues == {0, 10, 20, 50, 90}

\* getAIAction, Math.random yielding random and then, for the amount of a
\* raise, random2
getAIAction(gameBet, player, random, random2) ==
    LET amountToCall == gameBet - player.currentBet
        raiseAmount == gameBet + bigBlind * ((random2 * 3) \div 100 + 2)
    IN
    IF 2 * amountToCall > player.chips /\ random < 30
    THEN Action("fold", 0)
    ELSE IF random < 15 /\ player.chips > gameBet * 2
    THEN Action("raise", Min({raiseAmount, player.chips + player.currentBet}))
    ELSE IF amountToCall > 0
    THEN Action("call", amountToCall)
    ELSE Action("check", 0)

\* player.folded and player.allIn are never created: both read undefined
skipsSeat(player) == FALSE

----------------------------------------------------------------------------
(* HandEvaluator.js *)

HIGH_CARD      == 1
PAIR           == 2
TWO_PAIR       == 3
THREE_OF_KIND  == 4
STRAIGHT       == 5
FLUSH          == 6
FULL_HOUSE     == 7
FOUR_OF_KIND   == 8
STRAIGHT_FLUSH == 9
ROYAL_FLUSH    == 10

\* the rank compareWithSameRank sees when it is called with two arguments
NoRank == 0
\* the key "undefined" of countByRank, and NaN where parseInt reads it
UndefKey == 0

hasValue(it) == ~it.boxed
value(it)    == cardValue(it.card)
suit(it)     == cardSuit(it.card)

\* a.value - b.value as Array.prototype.sort reads it: NaN counts as 0
compareCardsRank(a, b) ==
    IF hasValue(a) /\ hasValue(b) THEN value(a) - value(b) ELSE 0

\* (a, b) => b.value - a.value
compareCardsDesc(a, b) == compareCardsRank(b, a)

\* (a, b) => b - a over parsed keys, NaN among them
compareKeysDesc(a, b) == IF a # UndefKey /\ b # UndefKey THEN b - a ELSE 0

InsertAt(s, k, x) == SubSeq(s, 1, k) \o <<x>> \o SubSeq(s, k + 1, Len(s))

\* Array.prototype.sort as a stable insertion sort: x goes behind the last
\* element the comparator does not put after it
RECURSIVE sortCards(_, _, _)
sortCards(done, todo, desc) ==
    IF todo = <<>> THEN done
    ELSE LET x == Head(todo)
             c(a, b) == IF desc THEN compareCardsDesc(a, b)
                        ELSE compareCardsRank(a, b)
             ks == {j \in 1..Len(done) : c(done[j], x) <= 0}
             k == IF ks = {} THEN 0 ELSE CHOOSE j \in ks : \A m \in ks : m <= j
         IN sortCards(InsertAt(done, k, x), Tail(todo), desc)

sortAscending(cards)  == sortCards(<<>>, cards, FALSE)
sortDescending(cards) == sortCards(<<>>, cards, TRUE)

RECURSIVE sortKeys(_, _)
sortKeys(done, todo) ==
    IF todo = <<>> THEN done
    ELSE LET x == Head(todo)
             ks == {j \in 1..Len(done) : compareKeysDesc(done[j], x) <= 0}
             k == IF ks = {} THEN 0 ELSE CHOOSE j \in ks : \A m \in ks : m <= j
         IN sortKeys(InsertAt(done, k, x), Tail(todo))

\* countByRank (Decks.js): the frequency object as the sequence of its
\* entries in Object.keys order, integer keys ascending, "undefined" last
countByRank(cards) ==
    LET vals == {value(cards[i]) : i \in {j \in 1..Len(cards) : hasValue(cards[j])}}
        nOf(v) == Cardinality({i \in 1..Len(cards) :
                      hasValue(cards[i]) /\ value(cards[i]) = v})
        nUndef == Cardinality({i \in 1..Len(cards) : ~hasValue(cards[i])})
        RECURSIVE asc(_)
        asc(S) == IF S = {} THEN <<>>
                  ELSE LET m == Min(S) IN
                       <<[key |-> m, n |-> nOf(m)]>> \o asc(S \ {m})
    IN asc(vals) \o (IF nUndef > 0
                     THEN <<[key |-> UndefKey, n |-> nUndef]>> ELSE <<>>)

\* the keys whose count is n, in Object.keys order, parsed
keysWithCount(count, n) ==
    LET RECURSIVE pick(_)
        pick(i) == IF i > Len(count) THEN <<>>
                   ELSE (IF count[i].n = n THEN <<count[i].key>> ELSE <<>>)
                        \o pick(i + 1)
    IN pick(1)

\* isStraight without its test of the wheel
isStraightNoWheel(sorted) ==
    \A idx \in 2..Len(sorted) :
        /\ hasValue(sorted[idx]) /\ hasValue(sorted[idx - 1])
        /\ value(sorted[idx]) - value(sorted[idx - 1]) = 1

\* isStraight, on the array its sort has left
isStraightSorted(sorted) ==
    \/ \A idx \in 2..Len(sorted) :
          /\ hasValue(sorted[idx]) /\ hasValue(sorted[idx - 1])
          /\ value(sorted[idx]) - value(sorted[idx - 1]) = 1
    \/ /\ \A idx \in 1..5 : hasValue(sorted[idx])
       /\ value(sorted[1]) = 2 /\ value(sorted[2]) = 3 /\ value(sorted[3]) = 4
       /\ value(sorted[4]) = 5 /\ value(sorted[5]) = 14

isStraight(cards) == isStraightSorted(sortAscending(cards))

\* card.suit === arr[idx - 1].suit
sameSuit(a, b) ==
    IF hasValue(a) /\ hasValue(b) THEN suit(a) = suit(b)
    ELSE ~hasValue(a) /\ ~hasValue(b)

isFlush(cards) == \A idx \in 2..Len(cards) : sameSuit(cards[idx], cards[idx - 1])

isFullHouse(count) ==
    /\ Len(count) >= 2
    /\ \/ count[1].n = 2 /\ count[2].n = 3
       \/ count[1].n = 3 /\ count[2].n = 2

isOfKind(number, count) ==
    \E i \in 1..Len(count) :
        /\ count[i].n = number
        /\ \A j \in 1..Len(count) : count[j].n <= number

isFlushRoyal(sorted) ==
    /\ hasValue(sorted[1]) /\ hasValue(sorted[5])
    /\ value(sorted[1]) = 10 /\ value(sorted[5]) = 14

getRank(cards) ==
    LET sorted == sortAscending(cards)
        AreStraight == isStraightSorted(sorted)
        AreFlush == isFlush(sorted)
        counts == countByRank(sorted)
    IN
    IF AreStraight /\ AreFlush /\ isFlushRoyal(sorted) THEN ROYAL_FLUSH
    ELSE IF AreStraight /\ AreFlush THEN STRAIGHT_FLUSH
    ELSE IF isOfKind(4, counts) THEN FOUR_OF_KIND
    ELSE IF isFullHouse(counts) THEN FULL_HOUSE
    ELSE IF AreFlush THEN FLUSH
    ELSE IF AreStraight THEN STRAIGHT
    ELSE IF isOfKind(3, counts) THEN THREE_OF_KIND
    ELSE IF Len(keysWithCount(counts, 2)) = 2 THEN TWO_PAIR
    ELSE IF Len(keysWithCount(counts, 2)) = 1 THEN PAIR
    ELSE HIGH_CARD

\* a > b and a < b over parsed keys: false as soon as one is NaN
keyGreater(a, b) == a # UndefKey /\ b # UndefKey /\ a > b

\* element i of a parsed key list; undefined (NaN in a comparison) past its end
keyAt(keys, i) == IF i <= Len(keys) THEN keys[i] ELSE UndefKey

\* comparePairs, compareTwoPairs, compareThreeOfKind, compareFourOfKind:
\* "new" or "best" for the argument returned, "null" for null
comparePairs(pairA, pairB) ==
    LET a == keyAt(keysWithCount(countByRank(pairA), 2), 1)
        b == keyAt(keysWithCount(countByRank(pairB), 2), 1)
    IN IF keyGreater(a, b) THEN "new"
       ELSE IF keyGreater(b, a) THEN "best" ELSE "null"

compareTwoPairs(twoPairA, twoPairB) ==
    LET a == sortKeys(<<>>, keysWithCount(countByRank(twoPairA), 2))
        b == sortKeys(<<>>, keysWithCount(countByRank(twoPairB), 2))
    IN IF keyGreater(keyAt(a, 1), keyAt(b, 1)) THEN "new"
       ELSE IF keyGreater(keyAt(b, 1), keyAt(a, 1)) THEN "best"
       ELSE IF keyGreater(keyAt(a, 2), keyAt(b, 2)) THEN "new"
       ELSE IF keyGreater(keyAt(b, 2), keyAt(a, 2)) THEN "best"
       ELSE "null"

compareOfKind(handA, handB, n) ==
    LET a == sortKeys(<<>>, keysWithCount(countByRank(handA), n))
        b == sortKeys(<<>>, keysWithCount(countByRank(handB), n))
    IN IF keyGreater(keyAt(a, 1), keyAt(b, 1)) THEN "new"
       ELSE IF keyGreater(keyAt(b, 1), keyAt(a, 1)) THEN "best"
       ELSE "null"

compareThreeOfKind(threeA, threeB) == compareOfKind(threeA, threeB, 3)
compareFourOfKind(fourA, fourB)    == compareOfKind(fourA, fourB, 4)

\* the loop of compareWithSameRank returning newRank after a full tie
RECURSIVE compareSortedNewOnTie(_, _, _)
compareSortedNewOnTie(a, b, i) ==
    IF i > Len(a) THEN "new"
    ELSE IF hasValue(a[i]) /\ hasValue(b[i]) /\ value(a[i]) > value(b[i])
         THEN "new"
    ELSE IF hasValue(a[i]) /\ hasValue(b[i]) /\ value(a[i]) < value(b[i])
         THEN "best"
    ELSE compareSortedNewOnTie(a, b, i + 1)

\* the loop of compareWithSameRank over the two sorted arrays, from index i
RECURSIVE compareSorted(_, _, _)
compareSorted(a, b, i) ==
    IF i > Len(a) THEN "best"
    ELSE IF hasValue(a[i]) /\ hasValue(b[i]) /\ value(a[i]) > value(b[i])
         THEN "new"
    ELSE IF hasValue(a[i]) /\ hasValue(b[i]) /\ value(a[i]) < value(b[i])
         THEN "best"
    ELSE compareSorted(a, b, i + 1)

\* the rank-specific comparison compareWithSameRank tries first
compareSpecific(newRank, bestRank, rank) ==
    CASE rank = PAIR          -> comparePairs(newRank, bestRank)
      [] rank = TWO_PAIR      -> compareTwoPairs(newRank, bestRank)
      [] rank = THREE_OF_KIND -> compareThreeOfKind(newRank, bestRank)
      [] rank = FOUR_OF_KIND  -> compareFourOfKind(newRank, bestRank)
      [] OTHER                -> "null"

\* which argument compareWithSameRank returns: TRUE for newRank
newRankWins(newRank, bestRank, rank) ==
    LET first == compareSpecific(newRank, bestRank, rank) IN
    IF first # "null" THEN first = "new"
    ELSE compareSorted(sortDescending(newRank), sortDescending(bestRank), 1)
            = "new"

\* the array compareWithSameRank returns, in the order its sorts have left
compareWithSameRank(newRank, bestRank, rank) ==
    LET sortedBoth == compareSpecific(newRank, bestRank, rank) = "null" IN
    IF newRankWins(newRank, bestRank, rank)
    THEN (IF sortedBoth THEN sortDescending(newRank) ELSE newRank)
    ELSE (IF sortedBoth THEN sortDescending(bestRank) ELSE bestRank)

RECURSIVE getAllCombinations(_, _)
getAllCombinations(cards, combinationLength) ==
    IF combinationLength > Len(cards) \/ combinationLength < 1 THEN <<>>
    ELSE IF combinationLength = Len(cards) THEN <<cards>>
    ELSE IF combinationLength = 1 THEN [i \in 1..Len(cards) |-> <<cards[i]>>]
    ELSE LET RECURSIVE from(_)
             from(i) ==
                IF i > Len(cards) - combinationLength + 1 THEN <<>>
                ELSE LET tail == getAllCombinations(
                                    SubSeq(cards, i + 1, Len(cards)),
                                    combinationLength - 1)
                     IN [j \in 1..Len(tail) |-> <<cards[i]>> \o tail[j]]
                        \o from(i + 1)
         IN from(1)

\* bestHand, the object the reduce of bestRank starts from
NoBest == [cards |-> <<>>, rank |-> 0]

\* the callback of the reduce of bestRank without its else-if branch
bestRankStepNoTie(acc, curr) ==
    LET newRank == getRank(curr) IN
    IF acc.rank < newRank
    THEN [cards |-> sortAscending(curr), rank |-> newRank]
    ELSE acc

\* the callback of the reduce of bestRank
bestRankStep(acc, curr) ==
    LET newRank == getRank(curr) IN
    IF acc.rank < newRank
    THEN [cards |-> sortAscending(curr), rank |-> newRank]
    ELSE IF acc.rank = newRank
    THEN [cards |-> compareWithSameRank(sortAscending(curr), acc.cards, newRank),
          rank |-> newRank]
    ELSE acc

RECURSIVE bestRankFrom(_, _, _)
bestRankFrom(combos, i, acc) ==
    IF i > Len(combos) THEN acc
    ELSE bestRankFrom(combos, i + 1, bestRankStep(acc, combos[i]))

bestRank(playerCards, tableCards) ==
    bestRankFrom(getAllCombinations(playerCards \o tableCards, 5), 1,
                 NoBest)

\* no entry: compareHands has not returned
NoEntry == [player |-> -1, bestHand |-> <<>>, rank |-> 0]

\* a > b over two different keys of the count object, which are strings
keyStringGreater(a, b) ==
    IF a = 10 THEN b = 1 ELSE IF b = 10 THEN a # 1 ELSE a > b

\* hands.sort((a, b) => b.evaluation.rank - a.evaluation.rank), stable
RECURSIVE sortHands(_, _)
sortHands(done, todo) ==
    IF todo = <<>> THEN done
    ELSE LET x == Head(todo)
             ks == {j \in 1..Len(done) : x.rank - done[j].rank <= 0}
             k == IF ks = {} THEN 0 ELSE CHOOSE j \in ks : \A m \in ks : m <= j
         IN sortHands(InsertAt(done, k, x), Tail(todo))

\* Object.keys(count).reduce((a, b) => a > b ? a : b)
RECURSIVE maxKeyFrom(_, _)
maxKeyFrom(a, keys) ==
    IF keys = {} THEN a
    ELSE LET b == Min(keys) IN
         maxKeyFrom(IF keyStringGreater(a, b) THEN a ELSE b, keys \ {b})

maxKey(hands) ==
    LET keys == {hands[i].rank : i \in 1..Len(hands)} IN
    maxKeyFrom(Min(keys), keys \ {Min(keys)})

\* the positions, in the sorted array, of the hands whose rank is maxKey
sameRankHands(sorted) ==
    LET mk == maxKey(sorted)
        RECURSIVE pick(_)
        pick(i) == IF i > Len(sorted) THEN <<>>
                   ELSE (IF sorted[i].rank = mk THEN <<i>> ELSE <<>>)
                        \o pick(i + 1)
    IN pick(1)

\* compareHands throws when its loop runs a second time: bestHand is then
\* an array of cards, bestHand.bestHand is undefined, and sort is called on it
compareHandsThrows(hands) == Len(sameRankHands(sortHands(<<>>, hands))) >= 3

\* the entry compareHands returns
compareHands(hands) ==
    LET sorted == sortHands(<<>>, hands)
        same == sameRankHands(sorted)
    IN IF Len(same) > 1
       THEN (IF newRankWins(sorted[same[2]].bestHand, sorted[same[1]].bestHand,
                            NoRank)
             THEN sorted[same[2]] ELSE sorted[same[1]])
       ELSE sorted[1]

----------------------------------------------------------------------------
(* GameService *)

NoAction == [type |-> "none", amount |-> 0, seat |-> 0, before |-> {}]

\* no function is called on its own, and none has returned
NoArgs   == [op |-> "none"]
NoResult == [op |-> "none"]

\* createNewGame(newPlayers): the game of the players createPlayer makes of
\* the pairs, nothing dealt, nothing bet
createNewGame(newPlayers) ==
    /\ players = [i \in DOMAIN newPlayers |-> createPlayer(i, newPlayers[i])]
    /\ deck = <<>>
    /\ tableCard = <<>>
    /\ pot = 0
    /\ currentPhase = "setup"
    /\ currentBet = 0
    /\ bigBlindPos = 0
    /\ smallBlindPos = -1
    /\ pc = "start"
    /\ stage = 0
    /\ error = "none"
    /\ activePlayers = {}
    /\ playersToAct = {}
    /\ currentIdx = 0
    /\ lastAction = NoAction
    /\ paidIn = 0
    /\ awarded = 0
    /\ phasesRun = <<>>
    /\ evaluated = FALSE
    /\ burned = <<>>
    /\ evalCards = <<>>
    /\ evalBest = NoBest
    /\ evalHands = <<>>
    /\ evalWinner = NoEntry
    /\ evalArgs = NoArgs
    /\ evalResult = NoResult

Init ==
    \E n \in TableSizes :
       \E chips \in [0..(n - 1) -> StartingChips] : createNewGame(chips)

NumPlayers == Cardinality(DOMAIN players)

Abort(e) ==
    /\ pc' = "aborted"
    /\ error' = e

\* startNewGame, up to the first await
\* startNewGame with the blind seats wrapping one hand late
nextBlindPosLate(pos, n) == IF pos + 1 > n THEN 0 ELSE pos + 1

\* (pos + 1) % game.players.length: the seat of a blind in the next hand
nextBlindPos(pos, n) == (pos + 1) % n

StartNewGame ==
    /\ pc = "start"
    /\ UNCHANGED evalVars
    /\ \E s \in 1..NumShuffles :
         deck' = shuffleDeck(createDeck, s)
    /\ players' = [i \in DOMAIN players |-> resetForNewHand(players[i])]
    /\ tableCard' = <<>>
    /\ pot' = 0
    /\ currentBet' = 0
    /\ bigBlindPos' = nextBlindPos(bigBlindPos, NumPlayers)
    /\ smallBlindPos' = nextBlindPos(smallBlindPos, NumPlayers)
    /\ pc' = "deal"
    /\ burned' = <<>>
    /\ UNCHANGED <<currentPhase, stage, error, roundVars, lastAction, paidIn,
                   awarded, phasesRun, evaluated>>

\* dealPlayers: two passes, one dealCards(deck, 1) per player and pass; the
\* dealt array itself, not its card, is handed to giveCard
DealPlayers ==
    /\ pc = "deal"
    /\ UNCHANGED evalVars
    /\ LET n == NumPlayers IN
       IF dealCardsThrows(deck, 2 * n)
       THEN /\ Abort("Error")
            /\ UNCHANGED <<gameVars, stage, roundVars, histVars>>
       ELSE /\ players' = [i \in DOMAIN players |->
                 giveCard(Item(deck[n + i + 1], TRUE),
                          giveCard(Item(deck[i + 1], TRUE), players[i]))]
            /\ deck' = remainingDeck(deck, 2 * n)
            /\ pc' = "blinds"
            /\ UNCHANGED <<tableCard, pot, currentPhase, currentBet,
                           bigBlindPos, smallBlindPos, stage, error,
                           roundVars, histVars>>

\* blindBet, then game.currentPhase = 'pre-flop'
BlindBet ==
    /\ pc = "blinds"
    /\ UNCHANGED evalVars
    /\ LET bb == players[bigBlindPos]
           e1 == placeBetThrows(bb, bigBlind)
           ps1 == [players EXCEPT ![bigBlindPos] = placeBet(bb, bigBlind)]
           sb == ps1[smallBlindPos]
           e2 == placeBetThrows(sb, smallBlind)
       IN
       IF e1 # "none"
       THEN /\ Abort(e1)
            /\ UNCHANGED <<gameVars, stage, roundVars, histVars>>
       ELSE IF e2 # "none"
       THEN /\ Abort(e2)
            /\ players' = ps1
            /\ paidIn' = paidIn + bigBlind
            /\ UNCHANGED <<deck, tableCard, pot, currentPhase, currentBet,
                           bigBlindPos, smallBlindPos, stage, roundVars,
                           lastAction, awarded, phasesRun, evaluated, burned>>
       ELSE /\ players' = [ps1 EXCEPT ![smallBlindPos] = placeBet(sb, smallBlind)]
            /\ pot' = smallBlind + bigBlind
            /\ currentBet' = bigBlind
            /\ currentPhase' = "pre-flop"
            /\ paidIn' = paidIn + bigBlind + smallBlind
            /\ pc' = "round"
            /\ UNCHANGED <<deck, tableCard, bigBlindPos, smallBlindPos,
                           stage, error, roundVars,
                           lastAction, awarded, phasesRun, evaluated, burned>>

\* bettingRound, up to its loop
BeginBettingRound ==
    /\ pc = "round"
    /\ UNCHANGED evalVars
    /\ LET active == getActivePlayers(players) IN
       IF Cardinality(active) <= 1
       THEN /\ pc' = "check"
            /\ UNCHANGED <<gameVars, stage, error, roundVars, histVars>>
       ELSE /\ activePlayers' = active
            /\ playersToAct' = {players[i].id : i \in active}
            /\ currentIdx' = IF currentPhase = "pre-flop"
                             THEN (bigBlindPos + 1) % NumPlayers
                             ELSE (smallBlindPos + 1) % NumPlayers
            /\ phasesRun' = Append(phasesRun, currentPhase)
            /\ lastAction' = NoAction
            /\ pc' = "betting"
            /\ UNCHANGED <<gameVars, stage, error, paidIn, awarded, evaluated, burned>>

processActionThrows(player, action) ==
    CASE action.type = "fold"  -> foldThrows(player)
      [] action.type = "check" -> "none"
      [] action.type = "call"  -> callThrows(player, currentBet)
      [] action.type = "raise" -> raiseThrows(player, action.amount)

\* game.players after processAction
processActionPlayers(player, action, playerIdx) ==
    CASE action.type = "fold"  -> [players EXCEPT ![playerIdx] = fold(player)]
      [] action.type = "check" -> players
      [] action.type = "call"  ->
            [players EXCEPT ![playerIdx] = call(player, currentBet)]
      [] action.type = "raise" ->
            [players EXCEPT ![playerIdx] = raise(player, action.amount)]

\* a pot that takes the whole target of a raise
processActionPotTarget(player, action) ==
    CASE action.type = "call"  -> pot + action.amount
      [] action.type = "raise" -> pot + action.amount
      [] OTHER -> pot

\* game.pot after processAction
processActionPot(player, action) ==
    CASE action.type = "call"  -> pot + action.amount
      [] action.type = "raise" -> pot + action.amount - player.currentBet
      [] OTHER -> pot

\* game.currentBet after processAction
processActionBet(action) ==
    IF action.type = "raise" THEN action.amount ELSE currentBet

\* the Set without the delete of the actor
nextToActKeep(ps, player, action) ==
    IF action.type = "raise"
    THEN playersToAct \cup {ps[i].id : i \in
            {j \in activePlayers : /\ ps[j].id # player.id
                                   /\ ~ps[j].hasFolded
                                   /\ ~ps[j].isInAllIn}}
    ELSE playersToAct

\* nextToAct without the forEach that follows a raise
nextToActNoReopen(ps, player, action) == playersToAct \ {player.id}

\* the Set after the iteration: the actor deleted, and after a raise the
\* players of the snapshot that are neither folded nor all-in added again
nextToAct(ps, player, action) ==
    LET deleted == playersToAct \ {player.id} IN
    IF action.type = "raise"
    THEN deleted \cup {ps[i].id : i \in
            {j \in activePlayers : /\ ps[j].id # player.id
                                   /\ ~ps[j].hasFolded
                                   /\ ~ps[j].isInAllIn}}
    ELSE deleted

\* one iteration of the loop of bettingRound
BettingStep ==
    /\ pc = "betting"
    /\ UNCHANGED evalVars
    /\ playersToAct # {}
    /\ Cardinality(getActivePlayers(players)) > 1
    /\ LET player == players[currentIdx] IN
       IF skipsSeat(player)
       THEN /\ currentIdx' = (currentIdx + 1) % NumPlayers
            /\ UNCHANGED <<gameVars, ctrlVars, activePlayers, playersToAct,
                           histVars>>
       ELSE \E action \in getHumanAction(currentBet, player) :
            LET e == processActionThrows(player, action)
                ps == processActionPlayers(player, action, currentIdx)
            IN
            IF e # "none"
            THEN /\ Abort(e)
                 /\ UNCHANGED <<gameVars, stage, roundVars, histVars>>
            ELSE /\ players' = ps
                 /\ pot' = processActionPot(player, action)
                 /\ currentBet' = processActionBet(action)
                 /\ playersToAct' = nextToAct(ps, player, action)
                 /\ currentIdx' = (currentIdx + 1) % NumPlayers
                 /\ lastAction' = [type |-> action.type,
                                   amount |-> action.amount,
                                   seat |-> currentIdx,
                                   before |-> playersToAct]
                 /\ paidIn' = paidIn + (player.chips - ps[currentIdx].chips)
                 /\ UNCHANGED <<deck, tableCard, currentPhase, bigBlindPos,
                                smallBlindPos, ctrlVars, activePlayers,
                                awarded, phasesRun, evaluated, burned>>

\* the end of bettingRound leaving the bets of the folded players as they are
resetBetsActive(ps) ==
    [i \in DOMAIN ps |->
        IF ps[i].hasFolded THEN [ps[i] EXCEPT !.frozen = FALSE]
        ELSE [ps[i] EXCEPT !.currentBet = 0, !.frozen = FALSE]]

\* game.players.map(p => ({ ...p, currentBet: 0 })): plain copies, not frozen
resetBets(ps) ==
    [i \in DOMAIN ps |-> [ps[i] EXCEPT !.currentBet = 0, !.frozen = FALSE]]

\* the loop of bettingRound is left: the bets are reset
EndBettingRound ==
    /\ pc = "betting"
    /\ UNCHANGED evalVars
    /\ \/ playersToAct = {}
       \/ Cardinality(getActivePlayers(players)) <= 1
    /\ players' = resetBets(players)
    /\ currentBet' = 0
    /\ lastAction' = NoAction
    /\ pc' = "check"
    /\ UNCHANGED <<deck, tableCard, pot, currentPhase, bigBlindPos,
                   smallBlindPos, stage, error, roundVars,
                   paidIn, awarded, phasesRun, evaluated, burned>>

\* resolveWinner adding the table current bet in place of the pot
resolveWinnerBet ==
    LET winnerIdx == Min(getActivePlayers(players)) IN
    /\ players' = [players EXCEPT ![winnerIdx] =
                      [@ EXCEPT !.chips = @ + currentBet, !.frozen = FALSE]]
    /\ awarded' = awarded + currentBet

resolveWinner ==
    LET winnerIdx == Min(getActivePlayers(players)) IN
    /\ players' = [players EXCEPT ![winnerIdx] =
                      [@ EXCEPT !.chips = @ + pot, !.frozen = FALSE]]
    /\ awarded' = awarded + pot

\* if (getActivePlayers(game.players).length <= 1) resolveWinner, return
ResolveWinner ==
    /\ pc = "check"
    /\ UNCHANGED evalVars
    /\ Cardinality(getActivePlayers(players)) <= 1
    /\ resolveWinner
    /\ pc' = "done"
    /\ UNCHANGED <<deck, tableCard, pot, currentPhase, currentBet,
                   bigBlindPos, smallBlindPos, stage, error, roundVars,
                   lastAction, paidIn, phasesRun, evaluated, burned>>

\* game.currentPhase = 'flop'; dealTableFlop: one card burnt, three revealed
DealTableFlop ==
    /\ pc = "check"
    /\ UNCHANGED evalVars
    /\ Cardinality(getActivePlayers(players)) > 1
    /\ stage = 0
    /\ currentPhase' = "flop"
    /\ stage' = 1
    /\ IF dealCardsThrows(deck, 4)
       THEN /\ Abort("Error")
            /\ UNCHANGED <<deck, tableCard, burned>>
       ELSE /\ tableCard' = tableCard \o
                 [k \in 1..3 |-> Item(deck[k + 1], FALSE)]
            /\ burned' = Append(burned, deck[1])
            /\ deck' = remainingDeck(deck, 4)
            /\ pc' = "round"
            /\ UNCHANGED error
    /\ UNCHANGED <<players, pot, currentBet, bigBlindPos, smallBlindPos,
                   roundVars, lastAction, paidIn, awarded, phasesRun,
                   evaluated>>

\* the for loop of startNewGame without its game.currentPhase = 'river'
phaseOfLoopTurn(i) == "turn"

\* game.currentPhase in iteration i of the for loop of startNewGame
phaseOfLoop(i) == IF i = 0 THEN "turn" ELSE "river"

\* game.currentPhase = 'turn' or 'river'; dealTableOneCard: the table
\* current bet reset, one card burnt, one revealed
DealTableOneCard ==
    /\ pc = "check"
    /\ UNCHANGED evalVars
    /\ Cardinality(getActivePlayers(players)) > 1
    /\ stage \in {1, 2}
    /\ currentPhase' = phaseOfLoop(stage - 1)
    /\ stage' = stage + 1
    /\ currentBet' = 0
    /\ IF dealCardsThrows(deck, 2)
       THEN /\ Abort("Error")
            /\ UNCHANGED <<deck, tableCard, burned>>
       ELSE /\ tableCard' = Append(tableCard, Item(deck[2], FALSE))
            /\ burned' = Append(burned, deck[1])
            /\ deck' = remainingDeck(deck, 2)
            /\ pc' = "round"
            /\ UNCHANGED error
    /\ UNCHANGED <<players, pot, bigBlindPos, smallBlindPos,
                   roundVars, lastAction, paidIn, awarded, phasesRun,
                   evaluated>>

\* the hole cards and the table of every deal the model can reach, each with
\* the value of bestRank on them: bestRank is evaluated once for each deal
\* and not once for each state that reaches showdown with it
dealtTable(d, n) ==
    <<Item(d[2 * n + 2], FALSE), Item(d[2 * n + 3], FALSE),
      Item(d[2 * n + 4], FALSE), Item(d[2 * n + 6], FALSE),
      Item(d[2 * n + 8], FALSE)>>

bestRankCache ==
    {[playerCards |-> <<Item(d[i + 1], TRUE), Item(d[n + i + 1], TRUE)>>,
      tableCards |-> dealtTable(d, n),
      best |-> bestRank(<<Item(d[i + 1], TRUE), Item(d[n + i + 1], TRUE)>>,
                        dealtTable(d, n))] :
        <<d, n, i>> \in {<<shuffleDeck(createDeck, s), m, j>> :
            s \in 1..NumShuffles, m \in SetupSizes, j \in 0..(MaxPlayers - 1)}}

cachedBestRank(playerCards, tableCards) ==
    (CHOOSE e \in bestRankCache :
        e.playerCards = playerCards /\ e.tableCards = tableCards).best

\* the evaluations showdown builds, in seat order
evaluations ==
    LET RECURSIVE build(_)
        build(S) ==
            IF S = {} THEN <<>>
            ELSE LET i == Min(S)
                     best == cachedBestRank(players[i].hand, tableCard)
                 IN <<[player |-> i, bestHand |-> best.cards,
                       rank |-> best.rank]>> \o build(S \ {i})
    IN build(getActivePlayers(players))

\* game.currentPhase = 'river' a second time, then showdown
Showdown ==
    /\ pc = "check"
    /\ UNCHANGED evalVars
    /\ Cardinality(getActivePlayers(players)) > 1
    /\ stage = 3
    /\ evaluated' = TRUE
    /\ LET hands == evaluations IN
       IF compareHandsThrows(hands)
       THEN /\ Abort("TypeError")
            /\ UNCHANGED <<players, awarded>>
       ELSE LET winnerIdx == compareHands(hands).player IN
            /\ players' = [players EXCEPT ![winnerIdx] =
                              [@ EXCEPT !.chips = @ + pot, !.frozen = FALSE]]
            /\ awarded' = awarded + pot
            /\ pc' = "done"
            /\ UNCHANGED error
    /\ UNCHANGED <<deck, tableCard, pot, currentPhase, currentBet,
                   bigBlindPos, smallBlindPos, stage, roundVars,
                   lastAction, paidIn, phasesRun, burned>>

Next ==
    \/ StartNewGame
    \/ DealPlayers
    \/ BlindBet
    \/ BeginBettingRound
    \/ BettingStep
    \/ EndBettingRound
    \/ ResolveWinner
    \/ DealTableFlop
    \/ DealTableOneCard
    \/ Showdown

Spec == Init /\ [][Next]_vars

\* the scheduling of bettingRound: its while loop runs on whenever it can,
\* every awaited action request being answered
FairSpec == Spec /\ WF_vars(BettingStep \/ EndBettingRound)

\* the first hand at every table setupGame can seat, each player starting
\* with the largest stack
InitDeal ==
    \E n \in SetupSizes :
       createNewGame([i \in 0..(n - 1) |-> Max(StartingChips)])

SpecDeal == InitDeal /\ [][Next]_vars

----------------------------------------------------------------------------
(* The evaluator on its own: bestRank and compareHands applied to inputs *)

\* createCard, by card value (2..14) and index of the suit in SUITS
createCard(v, s) == Item(s * NumRanks + (v - 2), FALSE)

\* the cards the candidates of bestRank are drawn from: the first
\* EvalDeckSize cards of EvalDeck
EvalDeck ==
    <<createCard(2, 0), createCard(3, 0), createCard(4, 0), createCard(5, 0),
      createCard(6, 0), createCard(14, 0), createCard(2, 1), createCard(3, 1),
      createCard(2, 2), createCard(2, 3), createCard(14, 1), createCard(6, 1),
      createCard(3, 2), createCard(13, 0)>>

\* the positions of S in increasing order, or in decreasing order
RECURSIVE inOrder(_, _)
inOrder(S, reversed) ==
    IF S = {} THEN <<>>
    ELSE LET p == IF reversed THEN Max(S) ELSE Min(S)
         IN <<EvalDeck[p]>> \o inOrder(S \ {p}, reversed)

\* 5 to 7 distinct cards, in two orders
CandidateInputs ==
    {inOrder(S, r) : S \in {T \in SUBSET (1..EvalDeckSize) :
                               Cardinality(T) \in 5..7},
                     r \in BOOLEAN}

\* five-card hands, hole cards first, for the entries of compareHands
EvalHandList ==
    << <<createCard(14, 0), createCard(13, 1), createCard(11, 2),
         createCard(9, 3), createCard(7, 0)>>,
       <<createCard(2, 0), createCard(2, 1), createCard(14, 1),
         createCard(13, 2), createCard(11, 3)>>,
       <<createCard(3, 0), createCard(3, 1), createCard(13, 0),
         createCard(11, 0), createCard(9, 1)>>,
       <<createCard(2, 2), createCard(2, 3), createCard(14, 2),
         createCard(12, 2), createCard(11, 1)>>,
       <<createCard(3, 2), createCard(3, 3), createCard(2, 0),
         createCard(2, 1), createCard(14, 3)>>,
       <<createCard(4, 0), createCard(4, 1), createCard(2, 2),
         createCard(2, 3), createCard(5, 0)>>,
       <<createCard(2, 0), createCard(2, 1), createCard(2, 2),
         createCard(14, 0), createCard(13, 1)>>,
       <<createCard(3, 0), createCard(3, 1), createCard(3, 2),
         createCard(4, 2), createCard(5, 3)>>,
       <<createCard(5, 1), createCard(6, 2), createCard(7, 3),
         createCard(8, 0), createCard(9, 1)>>,
       <<createCard(2, 0), createCard(4, 0), createCard(6, 0),
         createCard(8, 0), createCard(11, 0)>>,
       <<createCard(2, 0), createCard(2, 1), createCard(2, 2),
         createCard(5, 2), createCard(5, 3)>>,
       <<createCard(2, 0), createCard(2, 1), createCard(2, 2),
         createCard(2, 3), createCard(14, 0)>>,
       <<createCard(3, 0), createCard(3, 1), createCard(3, 2),
         createCard(3, 3), createCard(4, 0)>>,
       <<createCard(2, 1), createCard(3, 1), createCard(4, 1),
         createCard(5, 1), createCard(6, 1)>>,
       <<createCard(10, 0), createCard(11, 0), createCard(12, 0),
         createCard(13, 0), createCard(14, 0)>>,
       <<createCard(14, 3), createCard(2, 2), createCard(3, 1),
         createCard(4, 0), createCard(5, 2)>> >>

\* what showdown evaluates for each hand of the list
EvalBestList ==
    [k \in 1..Len(EvalHandList) |->
        bestRank(SubSeq(EvalHandList[k], 1, 2), SubSeq(EvalHandList[k], 3, 5))]

\* the entries showdown builds for 2 to MaxEntries players, seat by seat
HandInputs ==
    {[i \in 1..n |-> [player |-> i - 1,
                      bestHand |-> EvalBestList[f[i]].cards,
                      rank |-> EvalBestList[f[i]].rank]] :
        <<n, f>> \in UNION {{<<m, g>> : g \in [1..m -> 1..Len(EvalHandList)]} :
                            m \in 2..MaxEntries}}

\* the cards of a set of card indices as an array, lowest index first
RECURSIVE cardArray(_)
cardArray(ids) ==
    IF ids = {} THEN <<>>
    ELSE <<Item(Min(ids), FALSE)>> \o cardArray(ids \ {Min(ids)})

\* the cards the arguments of getRank are drawn from
RankDeck ==
    {createCard(v, 0).card : v \in {2, 3, 4, 5, 6, 10, 11, 12, 13, 14}}
        \cup {createCard(v, 1).card : v \in {2, 3, 5, 13, 14}}
        \cup {createCard(v, 2).card : v \in {2, 3, 14}}
        \cup {createCard(v, 3).card : v \in {2, 3}}

\* getRank(cards): every five cards of RankDeck
GetRankInputs ==
    {[op |-> "getRank", cards |-> cardArray(T)] :
        T \in {U \in SUBSET RankDeck : Cardinality(U) = 5}}

\* a card of the same value in the next suit of SUITS
nextSuit(it) ==
    Item((it.card + NumRanks) % (NumSuits * NumRanks), it.boxed)

\* the hands given to compareWithSameRank: the hands of EvalHandList, the
\* same hands in the next suit, and the same hands in reversed order
SameRankHandSet ==
    UNION {{EvalHandList[k],
            [i \in 1..5 |-> nextSuit(EvalHandList[k][i])],
            [i \in 1..5 |-> EvalHandList[k][6 - i]]} :
           k \in 1..Len(EvalHandList)}

\* compareWithSameRank(newRank, bestRank, rank): two hands, with the rank of
\* the first as bestRank passes it, or without a rank as compareHands calls
SameRankInputs ==
    {[op |-> "compareWithSameRank", newRank |-> a, bestRank |-> b, rank |-> r] :
        <<a, b, r>> \in UNION {{<<x, y, getRank(x)>>, <<x, y, NoRank>>} :
                                  x \in SameRankHandSet, y \in SameRankHandSet}}

FunctionInputs == GetRankInputs \cup SameRankInputs

InitEval ==
    /\ players = [i \in 0..1 |-> createPlayer(i, Min(StartingChips))]
    /\ deck = <<>>
    /\ tableCard = <<>>
    /\ pot = 0
    /\ currentPhase = "setup"
    /\ currentBet = 0
    /\ bigBlindPos = 0
    /\ smallBlindPos = -1
    /\ pc = "evaluator"
    /\ stage = 0
    /\ error = "none"
    /\ activePlayers = {}
    /\ playersToAct = {}
    /\ currentIdx = 0
    /\ lastAction = NoAction
    /\ paidIn = 0
    /\ awarded = 0
    /\ phasesRun = <<>>
    /\ evaluated = FALSE
    /\ burned = <<>>
    /\ evalBest = NoBest
    /\ evalWinner = NoEntry
    /\ evalResult = NoResult
    /\ \/ evalCards \in CandidateInputs /\ evalHands = <<>> /\ evalArgs = NoArgs
       \/ evalCards = <<>> /\ evalHands \in HandInputs /\ evalArgs = NoArgs
       \/ evalCards = <<>> /\ evalHands = <<>> /\ evalArgs \in FunctionInputs

\* bestRank(playerCards, tableCards), the first two candidates as hole cards
BestRank ==
    /\ pc = "evaluator"
    /\ evalCards # <<>>
    /\ evalBest' = bestRank(SubSeq(evalCards, 1, 2),
                            SubSeq(evalCards, 3, Len(evalCards)))
    /\ pc' = "returned"
    /\ UNCHANGED <<gameVars, stage, error, roundVars, histVars,
                   evalCards, evalHands, evalWinner, evalArgs, evalResult>>

\* compareHands(hands)
CompareHands ==
    /\ pc = "evaluator"
    /\ evalHands # <<>>
    /\ IF compareHandsThrows(evalHands)
       THEN /\ Abort("TypeError")
            /\ UNCHANGED evalWinner
       ELSE /\ evalWinner' = compareHands(evalHands)
            /\ pc' = "returned"
            /\ UNCHANGED error
    /\ UNCHANGED <<gameVars, stage, roundVars, histVars,
                   evalCards, evalBest, evalHands, evalArgs, evalResult>>

\* getRank(cards), with the array as its sort has left it
GetRank ==
    /\ pc = "evaluator"
    /\ evalArgs.op = "getRank"
    /\ evalResult' = [op |-> "getRank",
                      rank |-> getRank(evalArgs.cards),
                      cards |-> sortAscending(evalArgs.cards)]
    /\ pc' = "returned"
    /\ UNCHANGED <<gameVars, stage, error, roundVars, histVars,
                   evalCards, evalBest, evalHands, evalWinner, evalArgs>>

\* compareWithSameRank(newRank, bestRank, rank): the argument returned, and
\* the array returned as the sorts have left it
CompareWithSameRank ==
    /\ pc = "evaluator"
    /\ evalArgs.op = "compareWithSameRank"
    /\ evalResult' =
          [op |-> "compareWithSameRank",
           returned |-> IF newRankWins(evalArgs.newRank, evalArgs.bestRank,
                                       evalArgs.rank)
                        THEN "newRank" ELSE "bestRank",
           cards |-> compareWithSameRank(evalArgs.newRank, evalArgs.bestRank,
                                         evalArgs.rank)]
    /\ pc' = "returned"
    /\ UNCHANGED <<gameVars, stage, error, roundVars, histVars,
                   evalCards, evalBest, evalHands, evalWinner, evalArgs>>

NextEval ==
    \/ BestRank
    \/ CompareHands
    \/ GetRank
    \/ CompareWithSameRank

SpecEval == InitEval /\ [][NextEval]_vars

----------------------------------------------------------------------------
(* Decks.js on its own: dealCards and shuffleDeck applied to decks *)

\* the decks a game holds: a fresh or shuffled deck, or what is left of one
\* after some cards were dealt
DeckInputs ==
    {remainingDeck(d, k) :
        d \in {createDeck} \cup {shuffleDeck(createDeck, s) : s \in 1..NumShuffles},
        k \in 0..(NumSuits * NumRanks)}

\* dealCards(deck, count), count in 0..MaxDealCount
DealCardsInputs ==
    {<<d, [op |-> "dealCards", deck |-> d, count |-> k]>> :
        d \in DeckInputs, k \in 0..MaxDealCount}

\* every sequence of values Math.random can yield to the loop over n cards
AllOutcomes(n) == {r \in [1..(n - 1) -> 0..(n - 1)] : \A i \in 1..(n - 1) : r[i] <= i}

\* shuffleDeck(deck): the fresh deck under ShuffleSeeds random sources, and
\* the first ShuffleDeckSize cards of it under every outcome
ShuffleDeckInputs ==
    {<<createDeck, [op |-> "shuffleDeck", deck |-> createDeck,
                    random |-> randomOutcomes(s, Len(createDeck))]>> :
        s \in 0..ShuffleSeeds}
    \cup
    {<<SubSeq(createDeck, 1, ShuffleDeckSize),
       [op |-> "shuffleDeck", deck |-> SubSeq(createDeck, 1, ShuffleDeckSize),
        random |-> r]>> :
        r \in AllOutcomes(ShuffleDeckSize)}

InitDeck ==
    /\ players = [i \in 0..1 |-> createPlayer(i, Min(StartingChips))]
    /\ tableCard = <<>>
    /\ pot = 0
    /\ currentPhase = "setup"
    /\ currentBet = 0
    /\ bigBlindPos = 0
    /\ smallBlindPos = -1
    /\ pc = "decks"
    /\ stage = 0
    /\ error = "none"
    /\ activePlayers = {}
    /\ playersToAct = {}
    /\ currentIdx = 0
    /\ lastAction = NoAction
    /\ paidIn = 0
    /\ awarded = 0
    /\ phasesRun = <<>>
    /\ evaluated = FALSE
    /\ burned = <<>>
    /\ evalCards = <<>>
    /\ evalBest = NoBest
    /\ evalHands = <<>>
    /\ evalWinner = NoEntry
    /\ evalResult = NoResult
    /\ \E input \in DealCardsInputs \cup ShuffleDeckInputs :
         /\ deck = input[1]
         /\ evalArgs = input[2]

\* dealCards(deck, count): two slices of deck.cards, or the throw
DealCards ==
    /\ pc = "decks"
    /\ evalArgs.op = "dealCards"
    /\ IF dealCardsThrows(deck, evalArgs.count)
       THEN /\ Abort("Error")
            /\ UNCHANGED evalResult
       ELSE /\ evalResult' = [op |-> "dealCards",
                              dealtCards |-> dealtCards(deck, evalArgs.count),
                              remainingDeck |-> remainingDeck(deck, evalArgs.count)]
            /\ pc' = "returned"
            /\ UNCHANGED error
    /\ UNCHANGED <<gameVars, stage, roundVars, histVars,
                   evalCards, evalBest, evalHands, evalWinner, evalArgs>>

\* shuffleDeck(deck): the loop runs on a copy of deck.cards
ShuffleDeck ==
    /\ pc = "decks"
    /\ evalArgs.op = "shuffleDeck"
    /\ LET shuffledCards == shuffleCards(deck, evalArgs.random)
       IN evalResult' = [op |-> "shuffleDeck", cards |-> shuffledCards,
                         remaining |-> Len(shuffledCards)]
    /\ pc' = "returned"
    /\ UNCHANGED <<gameVars, stage, error, roundVars, histVars,
                   evalCards, evalBest, evalHands, evalWinner, evalArgs>>

NextDeck ==
    \/ DealCards
    \/ ShuffleDeck

SpecDeck == InitDeck /\ [][NextDeck]_vars

----------------------------------------------------------------------------
(* The loop of main: from the end of one hand to the blinds of the next *)

\* the chips a player may hold when a hand has ended
EndChips == {0, 10, 20, 60}

\* the players as a hand leaves them: bettingRound and the award have left
\* unfrozen copies with bet 0, the hands and the flags are those of the
\* hand, and a player left without chips has gone all-in
endPlayers(n, chips, folded, allIn) ==
    LET d == shuffleDeck(createDeck, 1) IN
    [i \in 0..(n - 1) |->
        [id |-> i, chips |-> chips[i],
         hand |-> <<Item(d[i + 1], TRUE), Item(d[n + i + 1], TRUE)>>,
         currentBet |-> 0, hasFolded |-> folded[i], isInAllIn |-> allIn[i],
         frozen |-> FALSE]]

\* the game when startNewGame has returned to main after a showdown: the pot
\* is still the one awarded, the blinds have moved once per hand played
InitHands ==
    /\ \E n \in TableSizes :
         /\ \E chips \in [0..(n - 1) -> EndChips],
                folded \in [0..(n - 1) -> BOOLEAN],
                allIn \in [0..(n - 1) -> BOOLEAN] :
              /\ \E i \in 0..(n - 1) : ~folded[i]
              /\ \A i \in 0..(n - 1) : chips[i] = 0 => allIn[i]
              /\ players = endPlayers(n, chips, folded, allIn)
         /\ \E h \in 1..MaxHands :
              /\ bigBlindPos = h % n
              /\ smallBlindPos = (h - 1) % n
         /\ tableCard = dealtTable(shuffleDeck(createDeck, 1), n)
         /\ deck = remainingDeck(shuffleDeck(createDeck, 1), 2 * n + 8)
    /\ pot = smallBlind + bigBlind
    /\ currentPhase = "river"
    /\ currentBet = 0
    /\ pc = "handEnd"
    /\ stage = 3
    /\ error = "none"
    /\ activePlayers = {}
    /\ playersToAct = {}
    /\ currentIdx = 0
    /\ lastAction = NoAction
    /\ paidIn = 0
    /\ awarded = 0
    /\ phasesRun = <<>>
    /\ evaluated = FALSE
    /\ burned = <<>>
    /\ evalCards = <<>>
    /\ evalBest = NoBest
    /\ evalHands = <<>>
    /\ evalWinner = NoEntry
    /\ evalArgs = NoArgs
    /\ evalResult = NoResult

\* players.filter(p => p.chips > 0): the players kept, in seat order
RECURSIVE filterChips(_, _)
filterChips(ps, i) ==
    IF i \notin DOMAIN ps THEN <<>>
    ELSE (IF ps[i].chips > 0 THEN <<ps[i]>> ELSE <<>>) \o filterChips(ps, i + 1)

\* the array of filterChips with its indices from 0
playersWithChips(ps) ==
    LET kept == filterChips(ps, 0)
    IN [i \in 0..(Len(kept) - 1) |-> kept[i + 1]]

\* the loop of main after startNewGame has returned: the two ways out, the
\* answer to askPlayAgain, and the players without chips leaving the table;
\* isIA is never set, so the human player main finds is the first player
NextHand ==
    /\ pc = "handEnd"
    /\ IF Cardinality(DOMAIN playersWithChips(players)) < 2
       THEN pc' = "over" /\ UNCHANGED players
       ELSE IF players[0].chips = 0
       THEN pc' = "over" /\ UNCHANGED players
       ELSE /\ players' = playersWithChips(players)
            /\ \E keepPlaying \in BOOLEAN :
                 pc' = IF keepPlaying THEN "start" ELSE "over"
    /\ UNCHANGED <<deck, tableCard, pot, currentPhase, currentBet, bigBlindPos,
                   smallBlindPos, stage, error, roundVars, histVars, evalVars>>

NextHands ==
    \/ NextHand
    \/ StartNewGame
    \/ DealPlayers
    \/ BlindBet

SpecHands == InitHands /\ [][NextHands]_vars

\* a boolean where the program computes with a number: false counts as 0 and
\* true as 1 in every comparison and subtraction
ToNumber(b) == IF b THEN 1 ELSE 0

\* the pairs setupGame builds for a table of n: [playerName, false] for the
\* human player, [aiNames[i], true] for each AI player
setupGame(n) == [i \in 0..(n - 1) |-> i # 0]

\* the game main starts with: createNewGame hands the second element of each
\* pair of setupGame to createPlayer as the player's chips
InitMain ==
    \E n \in SetupSizes :
       createNewGame([i \in 0..(n - 1) |-> ToNumber(setupGame(n)[i])])

\* the hands main starts: the first one, and the ones after a hand has ended
SpecMain == (InitMain \/ InitHands) /\ [][NextHands]_vars

----------------------------------------------------------------------------
(* processAction on its own: one answer of the player, any amount read *)

\* what parseInt reads as the amount of a raise
ParsedAmounts == {k * smallBlind : k \in (-MaxParsed)..MaxParsed}

\* the players once dealPlayers and blindBet have run on a first hand
blindsPosted(n, chips) ==
    [i \in 0..(n - 1) |->
        LET dealt == giveCard(Item(n + i, TRUE),
                        giveCard(Item(i, TRUE),
                            resetForNewHand(createPlayer(i, chips[i]))))
        IN CASE i = 1 -> placeBet(dealt, bigBlind)
             [] i = 0 -> placeBet(dealt, smallBlind)
             [] OTHER -> dealt]

\* the game before the first answer of the pre-flop round, the blinds being
\* covered with chips to spare, and the action the answer resolves to
InitAction ==
    /\ \E n \in TableSizes :
         /\ \E chips \in [0..(n - 1) -> StartingChips] :
              /\ chips[0] > smallBlind
              /\ chips[1] > bigBlind
              /\ players = blindsPosted(n, chips)
         /\ currentIdx = 2 % n
         /\ activePlayers = 0..(n - 1)
         /\ playersToAct = 0..(n - 1)
         /\ deck = remainingDeck(createDeck, 2 * n)
    /\ tableCard = <<>>
    /\ pot = smallBlind + bigBlind
    /\ currentPhase = "pre-flop"
    /\ currentBet = bigBlind
    /\ bigBlindPos = 1
    /\ smallBlindPos = 0
    /\ pc = "action"
    /\ stage = 0
    /\ error = "none"
    /\ lastAction = NoAction
    /\ paidIn = smallBlind + bigBlind
    /\ awarded = 0
    /\ phasesRun = <<"pre-flop">>
    /\ evaluated = FALSE
    /\ burned = <<>>
    /\ evalCards = <<>>
    /\ evalBest = NoBest
    /\ evalHands = <<>>
    /\ evalWinner = NoEntry
    /\ evalResult = NoResult
    /\ \E choice \in MenuChoices, amount \in ParsedAmounts :
         evalArgs = [op |-> "processAction",
                     action |-> resolveChoice(currentBet, players[currentIdx],
                                              choice, amount)]

\* processAction(game, player, action, playerIdx)
ProcessAction ==
    /\ pc = "action"
    /\ LET player == players[currentIdx]
           action == evalArgs.action
           e == processActionThrows(player, action)
       IN IF e # "none"
          THEN /\ Abort(e)
               /\ UNCHANGED <<players, pot, currentBet>>
          ELSE /\ players' = processActionPlayers(player, action, currentIdx)
               /\ pot' = processActionPot(player, action)
               /\ currentBet' = processActionBet(action)
               /\ pc' = "returned"
               /\ UNCHANGED error
    /\ UNCHANGED <<deck, tableCard, currentPhase, bigBlindPos, smallBlindPos,
                   stage, roundVars, histVars, evalVars>>

NextAction == ProcessAction

SpecAction == InitAction /\ [][NextAction]_vars

----------------------------------------------------------------------------
(* Claims about a hand *)

ActiveCount == Cardinality(getActivePlayers(players))

\* the players that are neither folded nor all-in
CanStillAct == {i \in DOMAIN players :
                    ~players[i].hasFolded /\ ~players[i].isInAllIn}

\* C1: right after a raise is processed the pending set holds every player
\* other than the raiser who is neither folded nor all-in, and not the
\* raiser; after a fold, check or call it is a subset of what it was
C1_Reopening ==
    pc = "betting" =>
        /\ lastAction.type = "raise" =>
              /\ players[lastAction.seat].id \notin playersToAct
              /\ \A i \in CanStillAct \ {lastAction.seat} :
                    players[i].id \in playersToAct
        /\ lastAction.type \in {"fold", "check", "call"} =>
              playersToAct \subseteq lastAction.before

\* a raise has put back a player who had already acted
C1_Witness ==
    /\ pc = "betting"
    /\ lastAction.type = "raise"
    /\ \E i \in CanStillAct \ {lastAction.seat} :
          players[i].id \in playersToAct \ lastAction.before

\* C2: a betting phase terminates, whatever the players answer
C2_Terminates == [](pc = "betting" => <>(pc # "betting"))

\* C3: when a betting phase ends with the pending set empty and not by a
\* fold-out, every player neither folded nor all-in has matched the table
\* current bet
C3_BetsMatched ==
    (pc = "betting" /\ playersToAct = {} /\ ActiveCount > 1) =>
        \A i \in CanStillAct : players[i].currentBet = currentBet

\* C4: from the blinds to the state after the award, the pot is what the
\* players have paid in minus what has been awarded
C4_PotConservation ==
    (error = "none" /\ pc \in {"round", "betting", "check", "done"}) =>
        pot = paidIn - awarded

AllPhases == <<"pre-flop", "flop", "turn", "river">>

\* C5: the betting phases run in the order pre-flop, flop, turn, river, none
\* twice and none skipped, currentPhase names the one that is running, and
\* the hands are evaluated only after the river betting, with two or more
\* players left
C5_PhaseOrder ==
    /\ Len(phasesRun) <= Len(AllPhases)
    /\ phasesRun = SubSeq(AllPhases, 1, Len(phasesRun))
    /\ pc = "betting" => currentPhase = phasesRun[Len(phasesRun)]
    /\ evaluated => /\ phasesRun = AllPhases
                    /\ pc \in {"done", "aborted"}
                    /\ ActiveCount >= 2

\* the hand has gone through the four phases to a showdown
C5_Witness == evaluated /\ pc = "done" /\ phasesRun = AllPhases

\* C6: when a betting phase has ended with one player left, the next step
\* ends the hand: no card is dealt, no betting phase and no evaluation
\* follows, and that player's stack grows by the whole pot
C6_EarlyExit ==
    [][(pc = "check" /\ ActiveCount = 1) =>
          LET w == Min(getActivePlayers(players)) IN
          /\ pc' = "done"
          /\ tableCard' = tableCard /\ deck' = deck
          /\ phasesRun' = phasesRun /\ ~evaluated'
          /\ players'[w].chips = players[w].chips + pot
          /\ \A i \in DOMAIN players \ {w} :
                players'[i].chips = players[i].chips]_vars

\* a hand ended by a fold-out, its pot awarded
C6_Witness ==
    pc = "done" /\ ActiveCount = 1 /\ ~evaluated /\ awarded = pot /\ pot > 0

\* C7: the showdown adds the whole pot to the stack of exactly one player,
\* who has not folded, and leaves the other stacks as they were
C7_ShowdownAward ==
    [][(pc = "check" /\ stage = 3 /\ ActiveCount > 1) =>
          \E w \in getActivePlayers(players) :
              /\ players'[w].chips = players[w].chips + pot
              /\ \A i \in DOMAIN players \ {w} :
                    players'[i].chips = players[i].chips]_vars

----------------------------------------------------------------------------
(* Claims about the evaluator *)

Range(f) == {f[i] : i \in DOMAIN f}

MaxRankOf(entries) == Max({entries[i].rank : i \in 1..Len(entries)})

\* C8: the entry compareHands returns has the highest rank ordinal of the
\* entries it was handed: a higher category never loses to a lower one
C8_HighestOrdinalWins ==
    (pc = "returned" /\ evalHands # <<>>) =>
        evalWinner.rank = MaxRankOf(evalHands)

\* the values that occur n times in a hand, highest first
valuesOfCount(hand, n) == sortKeys(<<>>, keysWithCount(countByRank(hand), n))

\* what the tie-break of a rank compares first, then the cards in
\* descending order
tieBreakKey(hand, rank) ==
    LET sorted == sortDescending(hand)
        first == CASE rank = PAIR          -> valuesOfCount(hand, 2)
                   [] rank = TWO_PAIR      -> valuesOfCount(hand, 2)
                   [] rank = THREE_OF_KIND -> valuesOfCount(hand, 3)
                   [] rank = FOUR_OF_KIND  -> valuesOfCount(hand, 4)
                   [] OTHER                -> <<>>
    IN first \o [i \in 1..Len(sorted) |-> value(sorted[i])]

\* a is greater than b at the first position where they differ
firstDifferenceGreater(a, b) ==
    \E i \in 1..Len(a) : a[i] > b[i] /\ \A j \in 1..(i - 1) : a[j] = b[j]

\* C9: of two entries of the same rank ordinal, compareHands returns the one
\* that wins the tie-break of that rank: the paired, tripled or quad values
\* first, the cards in descending order only when those are equal
C9_RankSpecificTieBreak ==
    (pc = "returned" /\ Len(evalHands) = 2
        /\ evalHands[1].rank = evalHands[2].rank) =>
        LET a  == evalHands[1]
            b  == evalHands[2]
            ka == tieBreakKey(a.bestHand, a.rank)
            kb == tieBreakKey(b.bestHand, b.rank)
        IN /\ firstDifferenceGreater(ka, kb) => evalWinner = a
           /\ firstDifferenceGreater(kb, ka) => evalWinner = b

\* the five-card subsets of the candidates, each as an array
fiveCardSubsets ==
    LET ids == {evalCards[i].card : i \in 1..Len(evalCards)}
        RECURSIVE asArray(_)
        asArray(S) == IF S = {} THEN <<>>
                      ELSE <<Item(Min(S), FALSE)>> \o asArray(S \ {Min(S)})
    IN {asArray(T) : T \in {U \in SUBSET ids : Cardinality(U) = 5}}

\* C10: bestRank returns five of the candidates with their getRank, no
\* five-card subset has a higher rank, and none of the same rank beats the
\* returned one in the same-rank tie-break
C10_BestSubset ==
    (pc = "returned" /\ evalCards # <<>>) =>
        /\ Len(evalBest.cards) = 5
        /\ Cardinality(Range(evalBest.cards)) = 5
        /\ Range(evalBest.cards) \subseteq Range(evalCards)
        /\ evalBest.rank = getRank(evalBest.cards)
        /\ \A sub \in fiveCardSubsets :
              /\ getRank(sub) <= evalBest.rank
              /\ getRank(sub) = evalBest.rank =>
                    ~newRankWins(sub, evalBest.cards, evalBest.rank)

\* bestRank has returned, from seven candidates, a subset that beats another
\* subset of its rank in the tie-break
C10_Witness ==
    /\ pc = "returned"
    /\ Len(evalCards) = 7
    /\ \E sub \in fiveCardSubsets :
          /\ getRank(sub) = evalBest.rank
          /\ newRankWins(evalBest.cards, sub, evalBest.rank)

\* the values of five cards, and how many of them have value v
valuesOf(cards) == {value(cards[i]) : i \in 1..Len(cards)}
timesOf(cards, v) == Cardinality({i \in 1..Len(cards) : value(cards[i]) = v})
valuesTimes(cards, n) == {v \in valuesOf(cards) : timesOf(cards, v) = n}

\* five consecutive values, or the wheel
refStraight(cards) ==
    /\ Cardinality(valuesOf(cards)) = 5
    /\ \/ Max(valuesOf(cards)) - Min(valuesOf(cards)) = 4
       \/ valuesOf(cards) = {2, 3, 4, 5, 14}

refFlush(cards) == Cardinality({suit(cards[i]) : i \in 1..Len(cards)}) = 1

\* the first category that applies, highest first
referenceRank(cards) ==
    IF refStraight(cards) /\ refFlush(cards) /\ Min(valuesOf(cards)) = 10
    THEN ROYAL_FLUSH
    ELSE IF refStraight(cards) /\ refFlush(cards) THEN STRAIGHT_FLUSH
    ELSE IF valuesTimes(cards, 4) # {} THEN FOUR_OF_KIND
    ELSE IF valuesTimes(cards, 3) # {} /\ valuesTimes(cards, 2) # {}
    THEN FULL_HOUSE
    ELSE IF refFlush(cards) THEN FLUSH
    ELSE IF refStraight(cards) THEN STRAIGHT
    ELSE IF valuesTimes(cards, 3) # {} THEN THREE_OF_KIND
    ELSE IF Cardinality(valuesTimes(cards, 2)) = 2 THEN TWO_PAIR
    ELSE IF Cardinality(valuesTimes(cards, 2)) = 1 THEN PAIR
    ELSE HIGH_CARD

\* C11: what getRank returns on five distinct cards is the first category
\* that applies in the order royal flush, straight flush, four of a kind,
\* full house, flush, straight (the wheel included), three of a kind, two
\* pair, pair, high card
C11_GetRankReference ==
    (pc = "returned" /\ evalResult.op = "getRank") =>
        evalResult.rank = referenceRank(evalArgs.cards)

\* getRank has returned for a wheel that is no flush
C11_Witness ==
    /\ pc = "returned"
    /\ evalResult.op = "getRank"
    /\ valuesOf(evalArgs.cards) = {2, 3, 4, 5, 14}
    /\ evalResult.rank = STRAIGHT

\* the value of the top card of a straight, the Ace of the wheel being low
straightHigh(cards) ==
    IF valuesOf(cards) = {2, 3, 4, 5, 14} THEN 5 ELSE Max(valuesOf(cards))

Straights == {STRAIGHT, STRAIGHT_FLUSH}

\* C12: the Ace of the wheel plays low: bestRank returns no straight (or
\* straight flush) whose top card is below that of another one among the
\* candidates, and of two straights at showdown the one with the higher top
\* card wins
C12_WheelPlaysLow ==
    /\ (pc = "returned" /\ evalCards # <<>> /\ evalBest.rank \in Straights) =>
          \A sub \in fiveCardSubsets :
              getRank(sub) = evalBest.rank =>
                  straightHigh(sub) <= straightHigh(evalBest.cards)
    /\ (pc = "returned" /\ Len(evalHands) = 2
          /\ evalHands[1].rank \in Straights
          /\ evalHands[1].rank = evalHands[2].rank) =>
          \A i \in 1..2 :
              straightHigh(evalHands[i].bestHand)
                  <= straightHigh(evalWinner.bestHand)

----------------------------------------------------------------------------
(* Claims about Decks.js *)

\* C13: dealCards(deck, k) returns the first k cards of the deck and a new
\* deck of the remaining cards in their order, leaves the deck it was given
\* as it was, and ends with an error when k exceeds the cards that remain
C13_DealCards ==
    evalArgs.op = "dealCards" =>
        LET d == evalArgs.deck
            k == evalArgs.count
        IN /\ deck = d
           /\ pc = "returned" =>
                /\ k <= Len(d)
                /\ Len(evalResult.dealtCards) = k
                /\ \A i \in 1..k : evalResult.dealtCards[i] = d[i]
                /\ Len(evalResult.remainingDeck) = Len(d) - k
                /\ \A i \in 1..(Len(d) - k) :
                      evalResult.remainingDeck[i] = d[k + i]
           /\ pc = "aborted" => k > Len(d) /\ error = "Error"
           /\ (pc # "decks" /\ k > Len(d)) => pc = "aborted"

\* three cards dealt from a deck of more than three
C13_Witness ==
    /\ pc = "returned"
    /\ evalArgs.op = "dealCards"
    /\ evalArgs.count = 3
    /\ Len(evalArgs.deck) > 3
    /\ Len(evalResult.remainingDeck) = Len(evalArgs.deck) - 3

\* C14: the cards shuffleDeck returns are a permutation of the cards of the
\* deck it was given, whatever Math.random yields: 52 of them for the fresh
\* deck; the deck it was given is left as it was
C14_ShufflePermutation ==
    evalArgs.op = "shuffleDeck" =>
        /\ deck = evalArgs.deck
        /\ pc = "returned" =>
              /\ Len(evalResult.cards) = Len(evalArgs.deck)
              /\ evalResult.remaining = Len(evalArgs.deck)
              /\ Len(evalArgs.deck) = Len(createDeck) =>
                    Len(evalResult.cards) = 52
              /\ \A c \in Range(evalArgs.deck) :
                    Cardinality({i \in DOMAIN evalResult.cards :
                                    evalResult.cards[i] = c}) = 1
        /\ pc # "aborted"

\* the fresh deck shuffled into another order
C14_Witness ==
    /\ pc = "returned"
    /\ evalArgs.op = "shuffleDeck"
    /\ Len(evalResult.cards) = 52
    /\ evalResult.cards # evalArgs.deck

----------------------------------------------------------------------------
(* Claims about the cards of a hand *)

\* the cards of the players' hands, seat by seat
RECURSIVE holeCards(_, _)
holeCards(ps, i) ==
    IF i \notin DOMAIN ps THEN <<>>
    ELSE [k \in DOMAIN ps[i].hand |-> ps[i].hand[k].card] \o holeCards(ps, i + 1)

\* hole cards, community cards, burned cards and the deck, one after another
allCards ==
    holeCards(players, 0) \o [k \in DOMAIN tableCard |-> tableCard[k].card]
        \o burned \o deck

\* C15: once a hand has started, the hole cards, the community cards, the
\* burned cards and the remaining deck hold no card twice and together are
\* the 52 cards
C15_CardPartition ==
    pc \notin {"start", "evaluator", "decks"} =>
        /\ Len(allCards) = NumSuits * NumRanks
        /\ Range(allCards) = Cards

\* the river is dealt: three cards burned, five on the table
C15_Witness ==
    /\ pc \notin {"start", "evaluator", "decks"}
    /\ Len(burned) = 3
    /\ Len(tableCard) = 5
    /\ \A i \in DOMAIN players : Len(players[i].hand) = 2
    /\ Len(deck) = NumSuits * NumRanks - 8 - 2 * NumPlayers

----------------------------------------------------------------------------
(* Claims about the actions of a betting round *)

\* C16: bettingRound requests no action from a player whose folded flag or
\* all-in flag is set: every iteration of its loop either passes over the
\* seat or finds there a player who has neither folded nor gone all-in
C16_SkipsFoldedAndAllIn ==
    [][BettingStep =>
          \/ skipsSeat(players[currentIdx])
          \/ /\ ~players[currentIdx].hasFolded
             /\ ~players[currentIdx].isInAllIn]_vars

\* the chips an action asks of the player: call and raise go through
\* placeBet with the difference to the player's bet of the phase
requiredChips(player, action) ==
    CASE action.type = "call"  -> currentBet - player.currentBet
      [] action.type = "raise" -> action.amount - player.currentBet
      [] OTHER -> 0

\* a fold by a player who has folded, or a call or raise that asks for more
\* chips than the player has
invalidAction(player, action) ==
    \/ action.type = "fold" /\ player.hasFolded
    \/ action.type \in {"call", "raise"} /\ requiredChips(player, action) > player.chips

\* an iteration of bettingRound whose action processAction has carried out
acceptedAction == BettingStep /\ pc' = "betting" /\ ~skipsSeat(players[currentIdx])

\* C17: an invalid action ends with an error and the players, the pot and
\* the table current bet are as before it; no invalid action is carried out
C17_InvalidActionRejected ==
    [][/\ (BettingStep /\ error' = "Error") =>
            /\ players' = players
            /\ pot' = pot
            /\ currentBet' = currentBet
       /\ acceptedAction =>
            ~invalidAction(players[currentIdx],
                           [type |-> lastAction'.type, amount |-> lastAction'.amount])
      ]_vars

\* a player who has not folded was refused a bet above the chips held
C17_Witness ==
    /\ pc = "aborted"
    /\ error = "Error"
    /\ phasesRun # <<>>
    /\ ~players[currentIdx].hasFolded
    /\ \E t \in RaiseTargets : t - players[currentIdx].currentBet > players[currentIdx].chips

\* C18: a call or raise that is carried out takes from the player's chips
\* what it adds to the player's bet of the phase and to the pot: the table
\* current bet less the player's bet for a call, the target less the
\* player's bet for a raise; no other player's chips or bet change
C18_ChipsBetPot ==
    [][(acceptedAction /\ lastAction'.type \in {"call", "raise"}) =>
          LET i == currentIdx
              moved == requiredChips(players[i],
                          [type |-> lastAction'.type, amount |-> lastAction'.amount])
          IN /\ players[i].chips - players'[i].chips = moved
             /\ players'[i].currentBet - players[i].currentBet = moved
             /\ pot' - pot = moved
             /\ \A j \in DOMAIN players \ {i} :
                   /\ players'[j].chips = players[j].chips
                   /\ players'[j].currentBet = players[j].currentBet
      ]_vars

\* the small blind has raised to twice the big blind before the flop
C18_Witness ==
    /\ pc = "betting"
    /\ currentPhase = "pre-flop"
    /\ lastAction.type = "raise"
    /\ lastAction.amount = 2 * bigBlind
    /\ lastAction.seat = smallBlindPos
    /\ players[smallBlindPos].currentBet = 2 * bigBlind
    /\ pot = bigBlind + 2 * bigBlind

\* C19: a raise that is carried out sets the table current bet to its
\* target, and the target is above the table current bet before it
C19_RaiseExceeds ==
    [][(acceptedAction /\ lastAction'.type = "raise") =>
          /\ currentBet' = lastAction'.amount
          /\ currentBet' > currentBet
      ]_vars

\* a call or raise by a player who has not folded that asks for all the
\* chips the player has
stakesAll(player, action) ==
    /\ action.type \in {"call", "raise"}
    /\ ~player.hasFolded
    /\ requiredChips(player, action) = player.chips

\* C20: a call, a raise or a blind that takes all the chips of the player
\* is carried out, leaves the player with 0 chips and sets the all-in flag;
\* and after every step a player whose all-in flag is set has 0 chips
C20_AllIn ==
    [][/\ \A i \in DOMAIN players' :
            players'[i].isInAllIn => players'[i].chips = 0
       /\ (BettingStep \/ BlindBet) => error' # "TypeError"
       /\ (acceptedAction /\ stakesAll(players[currentIdx],
                [type |-> lastAction'.type, amount |-> lastAction'.amount])) =>
            /\ players'[currentIdx].chips = 0
            /\ players'[currentIdx].isInAllIn
       /\ (BlindBet /\ pc' = "round") =>
            \A i \in {bigBlindPos, smallBlindPos} :
                players'[i].chips = 0 => players'[i].isInAllIn
       ]_vars

----------------------------------------------------------------------------
(* Claims about the blinds *)

\* C21: once blindBet has posted the blinds the pot is smallBlind + bigBlind,
\* the table current bet is bigBlind, the bets of the small-blind and
\* big-blind seats are their blinds, their chips are lower by their blinds,
\* and the chips and bets of the other players are as before
C21_BlindsPosted ==
    [][(BlindBet /\ pc' = "round") =>
          /\ pot' = smallBlind + bigBlind
          /\ currentBet' = bigBlind
          /\ players'[smallBlindPos].currentBet = smallBlind
          /\ players'[bigBlindPos].currentBet = bigBlind
          /\ players'[smallBlindPos].chips = players[smallBlindPos].chips - smallBlind
          /\ players'[bigBlindPos].chips = players[bigBlindPos].chips - bigBlind
          /\ \A i \in DOMAIN players \ {smallBlindPos, bigBlindPos} :
                /\ players'[i].chips = players[i].chips
                /\ players'[i].currentBet = players[i].currentBet
      ]_vars

----------------------------------------------------------------------------
(* Claims about the sources of actions *)

\* a fold, a check with nothing to call, a call of the amount to call that
\* the chips cover, or a raise above the table current bet whose difference
\* to the player's bet the chips cover
legalAction(gameBet, player, action) ==
    LET amountToCall == gameBet - player.currentBet IN
    CASE action.type = "fold"  -> TRUE
      [] action.type = "check" -> amountToCall = 0
      [] action.type = "call"  -> /\ action.amount = amountToCall
                                  /\ action.amount <= player.chips
      [] action.type = "raise" -> /\ action.amount > gameBet
                                  /\ action.amount - player.currentBet <= player.chips
      [] OTHER -> FALSE

\* the loop of bettingRound is about to ask the player at currentIdx
roundState ==
    pc = "betting" /\ playersToAct # {} /\ ActiveCount > 1

\* C22: in every state of a betting round the action getAIAction returns
\* for the player to act is legal, whatever Math.random yields
C22_AIActionLegal ==
    roundState =>
        \A random \in RandomValues, random2 \in RandomValues :
            legalAction(currentBet, players[currentIdx],
                        getAIAction(currentBet, players[currentIdx], random, random2))

\* the answers that are no entry of the menu getHumanAction shows
unrecognised(amountToCall) ==
    IF amountToCall > 0 THEN MenuChoices \ {1, 2, 3} ELSE MenuChoices \ {1, 2}

\* C23: getHumanAction turns an answer that is no entry of its menu into a
\* fold when there is an amount to call and into a check when there is
\* none; it returns no check while there is an amount to call and no call
\* of another amount than the amount to call
C23_HumanActionNormalised ==
    roundState =>
        LET player == players[currentIdx]
            amountToCall == currentBet - player.currentBet
        IN \A choice \in MenuChoices, amount \in RaiseTargets :
            LET action == resolveChoice(currentBet, player, choice, amount) IN
            /\ (choice \in unrecognised(amountToCall) /\ amountToCall > 0) =>
                  action.type = "fold"
            /\ (choice \in unrecognised(amountToCall) /\ amountToCall = 0) =>
                  action.type = "check"
            /\ action.type = "check" => ~(amountToCall > 0)
            /\ action.type = "call" => action.amount = amountToCall

\* on the flop a player with an amount to call gives an answer that is no
\* entry of the menu
C23_Witness ==
    /\ roundState
    /\ currentPhase = "flop"
    /\ currentBet - players[currentIdx].currentBet > 0
    /\ resolveChoice(currentBet, players[currentIdx], 4, 0).type = "fold"

----------------------------------------------------------------------------
(* Claims about chips and pot *)

\* C24: no player's chips and no pot are below 0, whatever blinds, folds,
\* checks, calls, raises and awards have taken place
C24_ChipsAndPotNonNegative ==
    /\ pot >= 0
    /\ \A i \in DOMAIN players : players[i].chips >= 0

----------------------------------------------------------------------------
(* Claims about the loop of bettingRound *)

\* C25, as stated: every iteration of the loop of bettingRound leaves the
\* set of players to act smaller, or fewer players active
C25_PendingDecreases ==
    [][acceptedAction =>
          \/ Cardinality(playersToAct') < Cardinality(playersToAct)
          \/ Cardinality(getActivePlayers(players'))
                < Cardinality(getActivePlayers(players))
      ]_vars

\* C25, corrected: every iteration takes the actor out of the set of players
\* to act; an iteration whose action is no raise adds no one, so the set is
\* smaller when the actor was in it; a raise adds every other player of the
\* round that has neither folded nor gone all-in, and may leave the set as
\* large as it was or larger
C25_PendingAfterAction ==
    [][acceptedAction =>
          LET actor == players[currentIdx].id IN
          /\ actor \notin playersToAct'
          /\ lastAction'.type # "raise" =>
                playersToAct' = playersToAct \ {actor}
          /\ (lastAction'.type # "raise" /\ actor \in playersToAct) =>
                Cardinality(playersToAct') < Cardinality(playersToAct)
          /\ lastAction'.type = "raise" =>
                playersToAct' = (playersToAct \ {actor}) \cup
                    {players'[j].id : j \in
                        {k \in activePlayers : /\ players'[k].id # actor
                                               /\ ~players'[k].hasFolded
                                               /\ ~players'[k].isInAllIn}}
      ]_vars

\* a raise has left the set of players to act as large as it was, with as
\* many players active
C25_Witness ==
    /\ pc = "betting"
    /\ lastAction.type = "raise"
    /\ lastAction.amount > bigBlind
    /\ lastAction.seat \in lastAction.before
    /\ Cardinality(playersToAct) >= Cardinality(lastAction.before)
    /\ ActiveCount = NumPlayers

\* the seat of a player that has neither folded nor gone all-in
eligibleSeat(i) == ~players[i].hasFolded /\ ~players[i].isInAllIn

\* the first such seat from seat s on, in increasing index modulo n
firstEligibleFrom(s) ==
    LET n == NumPlayers
        k == Min({m \in 0..(n - 1) : eligibleSeat((s + m) % n)})
    IN (s + k) % n

\* the seat the order of play starts from: left of the big blind before the
\* flop, left of the small blind in the other phases, and the seat after the
\* last one asked later in the phase
orderStart ==
    IF lastAction.type = "none"
    THEN IF currentPhase = "pre-flop"
         THEN (bigBlindPos + 1) % NumPlayers
         ELSE (smallBlindPos + 1) % NumPlayers
    ELSE (lastAction.seat + 1) % NumPlayers

\* C26: the first request of the pre-flop phase goes to the first eligible
\* seat from (bigBlindPos + 1) mod n on, the first request of every other
\* phase to the first eligible seat from (smallBlindPos + 1) mod n on, and
\* the later requests of the phase go on seat by seat modulo n
C26_OrderOfPlay ==
    [][(BettingStep /\ ~skipsSeat(players[currentIdx])
            /\ \E i \in DOMAIN players : eligibleSeat(i)) =>
          currentIdx = firstEligibleFrom(orderStart)
      ]_vars

\* C27: when a betting phase starts the set of players to act is the set of
\* the ids of the players that have neither folded nor gone all-in, and the
\* id of a player leaves the set as soon as the player's action is processed
C27_PendingSet ==
    [][/\ (BeginBettingRound /\ pc' = "betting") =>
            playersToAct' = {players[i].id : i \in
                                {j \in DOMAIN players : eligibleSeat(j)}}
       /\ acceptedAction => players[currentIdx].id \notin playersToAct'
      ]_vars

----------------------------------------------------------------------------
(* Claims about fold and check *)

\* the fields of a player the round reads
roundFields(player) ==
    [id |-> player.id, chips |-> player.chips, hand |-> player.hand,
     currentBet |-> player.currentBet, hasFolded |-> player.hasFolded,
     isInAllIn |-> player.isInAllIn]

\* C28: a fold sets the folded flag of the acting player and changes no
\* chips, no bet of the phase, no other flag, not the pot and not the table
\* current bet; a check changes none of them
C28_FoldAndCheckFrame ==
    [][/\ (acceptedAction /\ lastAction'.type = "fold") =>
            /\ players'[currentIdx].hasFolded
            /\ roundFields(players'[currentIdx])
                  = [roundFields(players[currentIdx]) EXCEPT !.hasFolded = TRUE]
            /\ \A i \in DOMAIN players \ {currentIdx} : players'[i] = players[i]
            /\ pot' = pot
            /\ currentBet' = currentBet
       /\ (acceptedAction /\ lastAction'.type = "check") =>
            /\ players' = players
            /\ pot' = pot
            /\ currentBet' = currentBet
      ]_vars

\* the big blind has folded with its blind in front of it
C28_Witness ==
    /\ pc = "betting"
    /\ lastAction.type = "fold"
    /\ lastAction.seat = bigBlindPos
    /\ players[bigBlindPos].hasFolded
    /\ players[bigBlindPos].currentBet = bigBlind
    /\ currentPhase = "pre-flop"

\* C29: blindBet tests no blind against the chips of the player: it posts
\* both blinds whatever the chips of the two players and ends with no error
C29_BlindsAlwaysPosted ==
    [][BlindBet => (pc' = "round" /\ error' = "none")]_vars

----------------------------------------------------------------------------
(* Claims about the start of a hand *)

\* C30: when startNewGame has reset the game for a hand, the first or a
\* later one, and before a card is dealt, every player has no cards, bet 0
\* and neither flag set, the pot and the table current bet are 0, the table
\* has no cards, and every player has the chips the hand before left
C30_HandReset ==
    [][StartNewGame =>
          /\ \A i \in DOMAIN players' :
                /\ players'[i].hand = <<>>
                /\ players'[i].currentBet = 0
                /\ ~players'[i].hasFolded
                /\ ~players'[i].isInAllIn
                /\ players'[i].chips = players[i].chips
                /\ players'[i].id = players[i].id
          /\ DOMAIN players' = DOMAIN players
          /\ pot' = 0
          /\ currentBet' = 0
          /\ tableCard' = <<>>
      ]_vars

\* a later hand is about to be dealt: a player has left the table, and the
\* winner of the hand before holds its chips
C30_Witness ==
    /\ pc = "deal"
    /\ NumPlayers = 2
    /\ players[1].id = 2
    /\ players[1].chips = Max(EndChips)
    /\ players[1].hand = <<>>
    /\ pot = 0

----------------------------------------------------------------------------
(* Claims about dealing *)

\* C31: after dealPlayers on a freshly shuffled deck with n players every
\* player holds two hole cards, each of them a card taken from the deck, the
\* deck has 52 - 2n cards left, and the player at seat i holds the i-th and
\* the (n + i)-th card from the top of the deck
C31_HoleCards ==
    [][(DealPlayers /\ pc' = "blinds") =>
          /\ Len(deck') = NumSuits * NumRanks - 2 * NumPlayers
          /\ \A i \in DOMAIN players :
                /\ Len(players'[i].hand) = 2
                /\ players'[i].hand[1] = Item(deck[i + 1], FALSE)
                /\ players'[i].hand[2] = Item(deck[NumPlayers + i + 1], FALSE)
      ]_vars

\* the cards on the table while the bets of a phase are placed
phaseCards(phase) ==
    CASE phase = "pre-flop" -> 0
      [] phase = "flop"     -> 3
      [] phase = "turn"     -> 4
      [] phase = "river"    -> 5
      [] OTHER              -> 0

\* the first cards of b are the cards of a, in the same order
isPrefix(a, b) == Len(a) <= Len(b) /\ SubSeq(b, 1, Len(a)) = a

\* C32: the table holds 0 cards while the pre-flop bets are placed, 3 on the
\* flop, 4 on the turn, 5 on the river and at showdown; before each of the
\* three reveals one card leaves the deck without reaching the table; and
\* cards are only added at the end of the table during a hand
C32_CommunityCards ==
    [][/\ pc' = "betting" => Len(tableCard') = phaseCards(currentPhase')
       /\ evaluated' => Len(tableCard') = 5
       /\ (DealTableFlop /\ pc' = "round") =>
            /\ burned' = Append(burned, deck[1])
            /\ tableCard' = tableCard \o [k \in 1..3 |-> Item(deck[k + 1], FALSE)]
            /\ deck' = SubSeq(deck, 5, Len(deck))
       /\ (DealTableOneCard /\ pc' = "round") =>
            /\ burned' = Append(burned, deck[1])
            /\ tableCard' = Append(tableCard, Item(deck[2], FALSE))
            /\ deck' = SubSeq(deck, 3, Len(deck))
       /\ ~StartNewGame => isPrefix(tableCard, tableCard')
       /\ Len(burned') = (IF Len(tableCard') = 0 THEN 0 ELSE Len(tableCard') - 2)
      ]_vars

\* the bets of the river are being placed
C32_Witness ==
    /\ pc = "betting"
    /\ currentPhase = "river"
    /\ Len(tableCard) = 5
    /\ Len(burned) = 3
    /\ \A k \in 1..3 : \A j \in 1..5 : burned[k] # tableCard[j].card

\* C33: at every table of 2 to 9 players no deal of a hand asks the deck for
\* more cards than it holds, and the deck holds 52 - 2n - 8 cards after the
\* river
C33_DealsFit ==
    [][/\ (DealPlayers \/ DealTableFlop \/ DealTableOneCard) =>
              /\ pc' # "aborted"
              /\ error' = "none"
       /\ DealPlayers => ~dealCardsThrows(deck, 2 * NumPlayers)
       /\ DealTableFlop => ~dealCardsThrows(deck, 4)
       /\ DealTableOneCard => ~dealCardsThrows(deck, 2)
       /\ (DealTableOneCard /\ stage = 2) =>
              Len(deck') = NumSuits * NumRanks - 2 * NumPlayers - 8
      ]_vars

C33_Witness ==
    /\ NumPlayers = MaxPlayers
    /\ pc = "betting"
    /\ currentPhase = "river"
    /\ Len(tableCard) = 5
    /\ Len(deck) = NumSuits * NumRanks - 2 * MaxPlayers - 8

\* C34: startNewGame moves the big-blind seat and the small-blind seat on by
\* one seat modulo the number of players of the hand, so the seats a blind
\* takes in n hands in a row at an unchanged table are all the n seats
C34_BlindsRotate ==
    [][StartNewGame =>
          /\ bigBlindPos' = (bigBlindPos + 1) % NumPlayers
          /\ smallBlindPos' = (smallBlindPos + 1) % NumPlayers
          /\ bigBlindPos' \in DOMAIN players'
          /\ smallBlindPos' \in DOMAIN players'
          /\ {(bigBlindPos + k) % NumPlayers : k \in 1..NumPlayers}
                = DOMAIN players'
          /\ {(smallBlindPos + k) % NumPlayers : k \in 1..NumPlayers}
                = DOMAIN players'
      ]_vars

\* a hand begins with the big blind back at seat 0 of a table of three
C34_Witness ==
    /\ pc = "deal"
    /\ NumPlayers = 3
    /\ bigBlindPos = 0
    /\ smallBlindPos = NumPlayers - 1

\* C35: a player keeps their chips from one hand to the next and leaves the
\* table with no chips: every hand main starts has two players or more, each
\* of them with more than 0 chips
C35_SeatedWithChips ==
    [][/\ StartNewGame =>
              /\ NumPlayers >= 2
              /\ \A i \in DOMAIN players : players[i].chips > 0
       /\ (NextHand /\ pc' = "start") =>
              /\ \A i \in DOMAIN players' :
                    \E j \in DOMAIN players : players'[i] = players[j]
              /\ \A j \in DOMAIN players :
                    players[j].chips > 0 =>
                       \E i \in DOMAIN players' : players'[i] = players[j]
      ]_vars

\* C36: the end of a betting phase sets the bet of every player and the
\* current bet of the table to 0, so the betting of the flop, the turn and
\* the river begins with all of them at 0; the betting before the flop
\* begins with the current bet of the table at bigBlind
C36_BetsReset ==
    [][/\ EndBettingRound =>
              /\ currentBet' = 0
              /\ \A i \in DOMAIN players' : players'[i].currentBet = 0
       /\ BeginBettingRound =>
              IF currentPhase = "pre-flop"
              THEN currentBet = bigBlind
              ELSE /\ currentPhase \in {"flop", "turn", "river"}
                   /\ currentBet = 0
                   /\ \A i \in DOMAIN players : players[i].currentBet = 0
      ]_vars

\* the betting of the turn begins after chips were bet on the flop
C36_Witness ==
    /\ pc = "betting"
    /\ currentPhase = "turn"
    /\ lastAction = NoAction
    /\ paidIn > (smallBlind + bigBlind) * NumPlayers
    /\ currentBet = 0
    /\ \A i \in DOMAIN players : players[i].currentBet = 0

\* the values of a hand in descending order
descendingValues(hand) ==
    [i \in 1..Len(hand) |-> value(sortDescending(hand)[i])]

\* the entries of the top rank of evalHands hold hands of the same values
fullTie ==
    LET sorted == sortHands(<<>>, evalHands)
        same == sameRankHands(sorted)
    IN /\ Len(same) = 2
       /\ descendingValues(sorted[same[1]].bestHand)
             = descendingValues(sorted[same[2]].bestHand)

\* C37: compareWithSameRank given a hand twice, or two hands of the same
\* values, returns its second argument, the current best; so the hand
\* bestRank has selected stays selected when it is compared with itself, and
\* compareHands keeps the first of two entries that tie in full
C37_TieKeepsIncumbent ==
    [][/\ (/\ CompareWithSameRank
           /\ descendingValues(evalArgs.newRank)
                 = descendingValues(evalArgs.bestRank)) =>
              /\ evalResult'.returned = "bestRank"
              /\ evalResult'.cards = sortDescending(evalArgs.bestRank)
       /\ BestRank =>
              /\ bestRankStep(evalBest', evalBest'.cards).rank = evalBest'.rank
              /\ bestRankStep(evalBest', evalBest'.cards).cards
                    = sortDescending(evalBest'.cards)
       /\ (CompareHands /\ fullTie) =>
              /\ pc' = "returned"
              /\ LET sorted == sortHands(<<>>, evalHands)
                 IN evalWinner' = sorted[sameRankHands(sorted)[1]]
      ]_vars

\* compareWithSameRank has compared two different hands of a pair of the
\* same values and returned the current best
C37_Witness ==
    /\ pc = "returned"
    /\ evalResult.op = "compareWithSameRank"
    /\ evalArgs.rank = PAIR
    /\ evalArgs.newRank # evalArgs.bestRank
    /\ descendingValues(evalArgs.newRank) = descendingValues(evalArgs.bestRank)
    /\ evalResult.returned = "bestRank"

\* the chips of all the players together
RECURSIVE chipsOf(_, _)
chipsOf(ps, seats) ==
    IF seats = {} THEN 0
    ELSE LET i == CHOOSE j \in seats : TRUE
         IN ps[i].chips + chipsOf(ps, seats \ {i})

totalChips(ps) == chipsOf(ps, DOMAIN ps)

\* the pot goes to a player: resolveWinner or showdown has returned
potAwarded == (ResolveWinner \/ Showdown) /\ pc' = "done"

\* C38: no step of a hand that ends without an error changes the chips of
\* the players plus the pot, up to the award; the award adds the pot to the
\* chips, and the players then hold together what they held when the hand
\* began: all they have paid in has been awarded
C38_ChipConservation ==
    [][/\ (pc' # "aborted" /\ ~potAwarded) =>
              totalChips(players') + pot' = totalChips(players) + pot
       /\ potAwarded =>
              /\ totalChips(players') = totalChips(players) + pot
              /\ awarded' = paidIn'
      ]_vars

\* a hand has ended at the showdown with chips bet after the blinds
C38_Witness ==
    /\ pc = "done"
    /\ evaluated
    /\ awarded > (smallBlind + bigBlind) * NumPlayers
    /\ awarded = paidIn

\* C39: in every hand, the hands after a player has left the table included,
\* the small blind and the big blind are two different seats of the table,
\* the big blind the next seat after the small blind
C39_BlindSeats ==
    [][StartNewGame =>
          /\ smallBlindPos' \in DOMAIN players'
          /\ bigBlindPos' \in DOMAIN players'
          /\ bigBlindPos' # smallBlindPos'
          /\ bigBlindPos' = (smallBlindPos' + 1) % Cardinality(DOMAIN players')
      ]_vars

\* the highest rank among the entries given to compareHands
topRank(hands) == Max({hands[i].rank : i \in 1..Len(hands)})

\* C40: compareHands returns without an error, whatever the number of
\* entries, three or more of the top rank included, and the entry it returns
\* is one of the entries of the top rank
C40_CompareHandsReturns ==
    [][CompareHands =>
          /\ pc' = "returned"
          /\ error' = "none"
          /\ \E i \in 1..Len(evalHands) : evalWinner' = evalHands[i]
          /\ evalWinner'.rank = topRank(evalHands)
      ]_vars

====
